---- MODULE Spec2Model ----
(***************************************************************************)
(* Content moderation pipeline, human resolution, trending recomputation   *)
(* and recommendation cache of the content platform, as state machines.    *)
(*                                                                         *)
(* Spec          the moderation orchestrator: content submission, the      *)
(*               detached pipeline runs (one per submitted item, one step  *)
(*               per awaited database call) and resolveModeration.         *)
(* SpecTrending  calculateTrendingScores, started by the startup timeout   *)
(*               and by the hourly interval, one step per awaited call.    *)
(* SpecRecs      getUserRecommendations with its database-backed cache.    *)
(* SpecLimits    the pipeline runs next to the cost monitor and the clock. *)
(* SpecRanking   applyPositivityRanking over bounded item lists.           *)
(* SpecBatcher   AnalysisBatcher: enqueue, flush, the processor's promise. *)
(* SpecFeed      the element feed reads with their five-minute cache, next *)
(*               to moderator decisions and invalidateFeedCache.           *)
(* SpecRecsModerated  SpecRecs over catalogues a decision has changed.     *)
(* SpecServices  analyzeElement, analyzePositivity and checkContentSafety  *)
(*               over the answers the remote model can give.               *)
(* SpecQueue     GET /api/moderation/queue over bounded queue tables.      *)
(* SpecTrendingViewed  SpecTrending over videos that have been viewed.     *)
(* SpecCost      CostMonitor.record and its budget tests as time passes.   *)
(* SpecRateLimit the rate-limiting middlewares over their shared store.    *)
(* SpecFallback  the pipeline without external service, over sample texts. *)
(*                                                                         *)
(* Numbers: a confidence is kept in tenths (0.5 is 5), a trending score in *)
(* hundredths (what toFixed(2) keeps), a time in hours, the feed clock in  *)
(* minutes, the rate limiter's clock in units of ten seconds, a cost in    *)
(* cents.                                                                  *)
(***************************************************************************)
EXTENDS Integers, Sequences, FiniteSets, TLC

VARIABLES
    OPENAI_API_KEY,     \* process.env.OPENAI_API_KEY is set (read once at load)
    videos,             \* table videos: row id = index
    posts,              \* table posts: row id = index
    moderationQueue,    \* table moderation_queue: row id = index
    auditLog,           \* table audit_log: row id = index
    tasks,              \* the detached pipeline run of each submitted item
    resolve,            \* the POST /api/moderation/:contentId/decide request in flight
    resolveCalls,       \* number of decide requests made so far (also the clock of moderatedAt)
    contentTrending,    \* table content_trending: row id = index
    trendRuns,          \* the executions of calculateTrendingScores in progress
    timers,             \* the startup timeout and the hourly interval of registerRoutes
    trendBaseline,      \* history: the trending rows as the last undisturbed run left them
    userRecommendations,\* table user_recommendations: row id = index
    viewSessions,       \* table view_sessions: row id = index
    recCalls,           \* the getUserRecommendations calls made
    recHistory,         \* per (user, category): ids returned by the last completed call
    now,                \* wall clock, in hours
    costMonitor,        \* the CostMonitor singleton: budget limit and cost records
    ranking,            \* an applyPositivityRanking call: its argument and its result
    batcher,            \* an AnalysisBatcher, its jobs and its processor calls
    feedCache,          \* the feedCache Map of the feed service: key -> entry
    feedCalls,          \* the feed reads (get...ByElement) in flight or returned
    feedClock,          \* wall clock of the feed service, in minutes
    feedClears,         \* number of invalidateFeedCache calls of the decide route
    service,            \* a call of one analysis service: its input, the answer, the result
    queueRead,          \* a GET /api/moderation/queue request: its status parameter and its response
    store               \* the RateLimitStore singleton, the clock it reads and the requests it has seen

modVars == <<OPENAI_API_KEY, videos, posts, moderationQueue, auditLog, tasks, resolve, resolveCalls>>
trendVars == <<contentTrending, trendRuns, timers, trendBaseline>>
recVars == <<userRecommendations, viewSessions, recCalls, recHistory, now>>
feedVars == <<feedCache, feedCalls, feedClock, feedClears>>
libVars == <<costMonitor, ranking, batcher, feedVars, service, queueRead, store>>
vars == <<modVars, trendVars, recVars, libVars>>

NULL == "NULL"

\* The budget limit when OPENAI_BUDGET_LIMIT_USD is not set, in cents.
DefaultBudgetLimit == 5000

\* An absent positivity score / confidence (SQL NULL in an integer column).
NoScore == -1

\* ------------------------------------------------------------------ bounds

MaxVideos == 1          \* videos submitted
MaxPosts == 1           \* posts submitted or created
MaxResolves == 2        \* moderator decisions made
MaxTicks == 3           \* firings of the hourly trending interval
MaxConcurrentRuns == 2  \* executions of calculateTrendingScores in progress at once
MaxViewCount == 1       \* views counted per item
MaxConcurrentCalls == 2 \* getUserRecommendations calls in flight at once
MaxSessions == 1        \* watch sessions started

\* ------------------------------------------------------------ value domains

Elements == <<"Water", "Fire", "Earth", "Air", "Spiritual">>

ElementSet == {Elements[i] : i \in 1..Len(Elements)}

Min(a, b) == IF a < b THEN a ELSE b

Max(a, b) == IF a > b THEN a ELSE b

Last(s) == s[Len(s)]

\* The rows of a table (a sequence) as the set of their ids.
Ids(table) == 1..Len(table)

\* ------------------------------------------------- safety screener (pure)

highRiskCategories == {"sexual/minors", "violence/graphic", "self-harm/intent", "self-harm/instructions"}

\* What the moderation endpoint can answer: an error status, a failed call,
\* a body without results[0], or a result with its flag and flagged categories.
SafetyResponses ==
    {[kind |-> "http_error", flagged |-> FALSE, categories |-> {}],
     [kind |-> "throws", flagged |-> FALSE, categories |-> {}],
     [kind |-> "no_result", flagged |-> FALSE, categories |-> {}],
     [kind |-> "result", flagged |-> FALSE, categories |-> {}],
     [kind |-> "result", flagged |-> TRUE, categories |-> {}],
     [kind |-> "result", flagged |-> TRUE, categories |-> {"hate"}],
     [kind |-> "result", flagged |-> TRUE, categories |-> {"violence/graphic"}],
     [kind |-> "result", flagged |-> TRUE, categories |-> {"hate", "harassment"}],
     [kind |-> "result", flagged |-> TRUE, categories |-> {"hate", "harassment", "violence"}],
     [kind |-> "result", flagged |-> FALSE, categories |-> {"hate"}]}

riskLevelOf(isFlagged, flaggedCategories) ==
    IF ~isFlagged THEN "none"
    ELSE IF flaggedCategories \cap highRiskCategories # {} THEN "high"
    ELSE IF Cardinality(flaggedCategories) > 2 THEN "high"
    ELSE IF Cardinality(flaggedCategories) > 0 THEN "medium"
    ELSE "none"

checkContentSafetyFailOpen(key, resp) ==
    IF ~key \/ resp.kind \in {"http_error", "throws", "no_result"}
        THEN [isSafe |-> TRUE, flags |-> {}, riskLevel |-> "none"]
    ELSE [isSafe |-> ~resp.flagged,
          flags |-> resp.categories,
          riskLevel |-> riskLevelOf(resp.flagged, resp.categories)]

checkContentSafety(key, resp) ==
    IF ~key THEN [isSafe |-> TRUE, flags |-> {}, riskLevel |-> "none"]
    ELSE IF resp.kind \in {"http_error", "throws"}
        THEN [isSafe |-> FALSE, flags |-> {"api_error"}, riskLevel |-> "medium"]
    ELSE IF resp.kind = "no_result"
        THEN [isSafe |-> TRUE, flags |-> {}, riskLevel |-> "none"]
    ELSE [isSafe |-> ~resp.flagged,
          flags |-> resp.categories,
          riskLevel |-> riskLevelOf(resp.flagged, resp.categories)]

\* How the request to the moderation endpoint ended: never sent, failed (an
\* error status or an exception) or answered.
safetyOutcome(resp) ==
    IF resp.kind \in {"http_error", "throws"} THEN "failed"
    ELSE IF resp.kind = "not_called" THEN "not_called"
    ELSE "answered"

\* No request is sent when the key is not set.
NotCalled == [kind |-> "not_called", flagged |-> FALSE, categories |-> {}]

\* The answers a pipeline run is given in the moderation specification.
PipelineSafetyResponses ==
    {[kind |-> "http_error", flagged |-> FALSE, categories |-> {}],
     [kind |-> "throws", flagged |-> FALSE, categories |-> {}],
     [kind |-> "result", flagged |-> FALSE, categories |-> {}],
     [kind |-> "result", flagged |-> TRUE, categories |-> {"violence/graphic"}]}

\* ------------------------------------------------------------ text (pure)

\* A text is the sequence of its characters.
UpperCase == <<"A", "B", "C", "D", "E", "F", "G", "H", "I", "J", "K", "L", "M", "N", "O", "P", "Q", "R", "S", "T", "U", "V", "W", "X", "Y", "Z">>

LowerCase == <<"a", "b", "c", "d", "e", "f", "g", "h", "i", "j", "k", "l", "m", "n", "o", "p", "q", "r", "s", "t", "u", "v", "w", "x", "y", "z">>

\* String.prototype.toLowerCase
toLowerCase(text) ==
    [i \in 1..Len(text) |->
        IF \E k \in 1..Len(UpperCase) : UpperCase[k] = text[i]
            THEN LowerCase[CHOOSE k \in 1..Len(UpperCase) : UpperCase[k] = text[i]]
            ELSE text[i]]

\* String.prototype.includes
includes(text, w) ==
    \E i \in 0..(Len(text) - Len(w)) : \A k \in 1..Len(w) : text[i + k] = w[k]

\* words.filter((w) => text.includes(w)).length
hits(words, text) == Cardinality({k \in 1..Len(words) : includes(text, words[k])})

\* The post "I hate everything, it's hopeless".
HopelessText == <<"I", " ", "h", "a", "t", "e", " ", "e", "v", "e", "r", "y", "t", "h", "i", "n", "g", ",", " ", "i", "t", "'", "s", " ", "h", "o", "p", "e", "l", "e", "s", "s">>

\* A text with keywords of one category.
CalmText == <<"C", "a", "l", "m", " ", "o", "c", "e", "a", "n", " ", "w", "a", "v", "e", "s">>

\* A text without any keyword.
PlainText == <<"H", "e", "l", "l", "o">>

\* A text with one keyword, and one with two of one category.
RainText == <<"R", "a", "i", "n">>

CalmRainText == <<"C", "a", "l", "m", " ", "r", "a", "i", "n">>

SampleTexts == <<HopelessText, CalmText, PlainText, RainText, CalmRainText>>

\* ------------------------------------------------------ classifier (pure)

\* Keyword hits of the best category in the submitted text.
KeywordScores == {0, 3}

\* Confidences the external classifier answers with, in tenths.
ApiConfidences == {5}

\* fallbackAnalysis with a tenth per hit.
fallbackAnalysisTenthPerHit(bestScore, bestElement) ==
    [elementType |-> bestElement,
     confidence |-> IF bestScore > 0 THEN Min(8, bestScore) ELSE 3]

fallbackAnalysis(bestScore, bestElement) ==
    [elementType |-> bestElement,
     confidence |-> IF bestScore > 0 THEN Min(8, bestScore * 2) ELSE 3]

\* const keywords of fallbackAnalysis, in the order of Elements.
keywords ==
    <<<<<<"w", "a", "t", "e", "r">>,
       <<"o", "c", "e", "a", "n">>,
       <<"f", "l", "o", "w">>,
       <<"e", "m", "o", "t", "i", "o", "n">>,
       <<"c", "a", "l", "m">>,
       <<"s", "o", "o", "t", "h", "e">>,
       <<"r", "e", "f", "l", "e", "c", "t">>,
       <<"r", "a", "i", "n">>,
       <<"r", "i", "v", "e", "r">>,
       <<"w", "a", "v", "e">>,
       <<"p", "e", "a", "c", "e">>,
       <<"i", "n", "t", "u", "i", "t", "i", "o", "n">>,
       <<"f", "e", "e", "l", "i", "n", "g">>>>,
     <<<<"f", "i", "r", "e">>,
       <<"e", "n", "e", "r", "g", "y">>,
       <<"p", "a", "s", "s", "i", "o", "n">>,
       <<"m", "o", "t", "i", "v", "a", "t">>,
       <<"t", "r", "a", "n", "s", "f", "o", "r", "m">>,
       <<"p", "o", "w", "e", "r">>,
       <<"a", "c", "t", "i", "o", "n">>,
       <<"b", "u", "r", "n">>,
       <<"l", "i", "g", "h", "t">>,
       <<"s", "t", "r", "e", "n", "g", "t", "h">>,
       <<"d", "r", "i", "v", "e">>,
       <<"c", "o", "u", "r", "a", "g", "e">>>>,
     <<<<"e", "a", "r", "t", "h">>,
       <<"g", "r", "o", "u", "n", "d">>,
       <<"n", "a", "t", "u", "r", "e">>,
       <<"g", "r", "o", "w">>,
       <<"s", "t", "a", "b", "i", "l", "i", "t", "y">>,
       <<"n", "u", "r", "t", "u", "r", "e">>,
       <<"p", "l", "a", "n", "t">>,
       <<"f", "o", "r", "e", "s", "t">>,
       <<"m", "o", "u", "n", "t", "a", "i", "n">>,
       <<"r", "o", "o", "t">>,
       <<"h", "e", "a", "l">>,
       <<"b", "o", "d", "y">>>>,
     <<<<"a", "i", "r">>,
       <<"w", "i", "n", "d">>,
       <<"t", "h", "i", "n", "k">>,
       <<"i", "n", "t", "e", "l", "l", "e", "c", "t">>,
       <<"c", "o", "m", "m", "u", "n", "i", "c">>,
       <<"f", "r", "e", "e", "d", "o", "m">>,
       <<"p", "e", "r", "s", "p", "e", "c", "t">>,
       <<"m", "i", "n", "d">>,
       <<"i", "d", "e", "a">>,
       <<"l", "e", "a", "r", "n">>,
       <<"b", "r", "e", "a", "t", "h">>,
       <<"o", "p", "e", "n">>>>,
     <<<<"s", "p", "i", "r", "i", "t">>,
       <<"t", "r", "a", "n", "s", "c", "e", "n", "d">>,
       <<"d", "i", "v", "i", "n", "e">>,
       <<"m", "e", "d", "i", "t", "a", "t">>,
       <<"p", "r", "a", "y">>,
       <<"c", "o", "n", "s", "c", "i", "o", "u", "s">>,
       <<"s", "a", "c", "r", "e", "d">>,
       <<"s", "o", "u", "l">>,
       <<"e", "n", "l", "i", "g", "h", "t", "e", "n">>,
       <<"c", "h", "a", "k", "r", "a">>,
       <<"u", "n", "i", "v", "e", "r", "s", "e">>,
       <<"c", "o", "s", "m", "i", "c">>>>>>

\* The loop of fallbackAnalysis over Object.entries(keywords): the first
\* category with the highest number of hits, Spiritual and 0 when nothing hits.
keywordScan(title) ==
    LET text == toLowerCase(title \o <<" ">>)
        score == [e \in 1..Len(Elements) |-> hits(keywords[e], text)]
        best == CHOOSE e \in 1..Len(Elements) :
                    /\ \A d \in 1..Len(Elements) : score[d] <= score[e]
                    /\ \A d \in 1..(e - 1) : score[d] < score[e]
    IN IF score[best] = 0 THEN [bestScore |-> 0, bestElement |-> "Spiritual"]
       ELSE [bestScore |-> score[best], bestElement |-> Elements[best]]

\* What fallbackAnalysis(title) can return: without a hit the category is
\* drawn with Math.random.
fallbackAnalysisOutcomes(title) ==
    LET scan == keywordScan(title)
    IN IF scan.bestScore = 0
        THEN {fallbackAnalysis(0, e) : e \in ElementSet}
        ELSE {fallbackAnalysis(scan.bestScore, scan.bestElement)}

\* What the chat endpoint can answer to the classifier: a failed call, an
\* error status, a body without message content, content that is not JSON, or
\* parsed content with its elementType and its confidence (in tenths).
ClassifierResponses ==
    {[kind |-> k, elementType |-> NULL, confidence |-> 0] :
        k \in {"throws", "http_error", "no_content", "unparsable"}}
    \cup {[kind |-> "parsed", elementType |-> e, confidence |-> c] :
            e \in {"Water", "Spiritual", "water", "Ether"}, c \in {-2, 0, 5, 10, 17}}

\* analyzeVideoElement(_, title) / analyzeTextElement(content): the results the
\* call can return, given the key and the answer of the endpoint.
analyzeElement(key, title, resp) ==
    IF ~key \/ resp.kind # "parsed" THEN fallbackAnalysisOutcomes(title)
    ELSE {[elementType |-> resp.elementType,
           confidence |-> Min(10, Max(0, IF resp.confidence = 0 THEN 5 ELSE resp.confidence))]}

\* The results analyzeVideoElement / analyzeTextElement can return: the
\* keyword fallback without a key or on any failure, else the parsed answer.
AnalysisOutcomes(key) ==
    LET fallback == {fallbackAnalysis(s, "Water") : s \in KeywordScores}
        parsed == {[elementType |-> "Fire", confidence |-> c] : c \in ApiConfidences}
    IN IF key THEN {fallbackAnalysis(0, "Water")} \cup parsed ELSE fallback

\* ------------------------------------------------- positivity scorer (pure)

positiveWords ==
    <<<<"l", "o", "v", "e">>,
     <<"h", "a", "p", "p", "y">>,
     <<"j", "o", "y">>,
     <<"p", "e", "a", "c", "e">>,
     <<"g", "r", "a", "t", "i", "t", "u", "d", "e">>,
     <<"i", "n", "s", "p", "i", "r", "e">>,
     <<"h", "o", "p", "e">>,
     <<"b", "e", "a", "u", "t", "i", "f", "u", "l">>,
     <<"a", "m", "a", "z", "i", "n", "g">>,
     <<"w", "o", "n", "d", "e", "r", "f", "u", "l">>,
     <<"b", "l", "e", "s", "s", "i", "n", "g">>,
     <<"h", "e", "a", "l">>,
     <<"g", "r", "o", "w">>,
     <<"e", "m", "p", "o", "w", "e", "r">>,
     <<"u", "p", "l", "i", "f", "t">>,
     <<"k", "i", "n", "d", "n", "e", "s", "s">>,
     <<"c", "o", "m", "p", "a", "s", "s", "i", "o", "n">>,
     <<"h", "a", "r", "m", "o", "n", "y">>,
     <<"c", "a", "l", "m">>,
     <<"g", "r", "a", "t", "e", "f", "u", "l">>,
     <<"p", "o", "s", "i", "t", "i", "v", "e">>,
     <<"s", "u", "p", "p", "o", "r", "t">>,
     <<"s", "t", "r", "e", "n", "g", "t", "h">>,
     <<"c", "o", "u", "r", "a", "g", "e">>,
     <<"l", "i", "g", "h", "t">>,
     <<"m", "e", "d", "i", "t", "a", "t", "i", "o", "n">>,
     <<"m", "i", "n", "d", "f", "u", "l">>,
     <<"w", "e", "l", "l", "n", "e", "s", "s">>,
     <<"y", "o", "g", "a">>,
     <<"s", "p", "i", "r", "i", "t">>,
     <<"n", "a", "t", "u", "r", "e">>>>

negativeWords ==
    <<<<"h", "a", "t", "e">>,
     <<"a", "n", "g", "r", "y">>,
     <<"s", "a", "d">>,
     <<"f", "e", "a", "r">>,
     <<"a", "n", "x", "i", "e", "t", "y">>,
     <<"s", "t", "r", "e", "s", "s">>,
     <<"p", "a", "i", "n">>,
     <<"f", "a", "i", "l">>,
     <<"u", "g", "l", "y">>,
     <<"t", "e", "r", "r", "i", "b", "l", "e">>,
     <<"a", "w", "f", "u", "l">>,
     <<"d", "e", "s", "t", "r", "o", "y">>,
     <<"f", "i", "g", "h", "t">>,
     <<"w", "a", "r">>,
     <<"t", "o", "x", "i", "c">>,
     <<"b", "a", "d">>,
     <<"w", "o", "r", "s", "t">>,
     <<"n", "e", "g", "a", "t", "i", "v", "e">>,
     <<"d", "e", "p", "r", "e", "s", "s">>,
     <<"h", "o", "p", "e", "l", "e", "s", "s">>>>

\* posCount and negCount of fallbackPositivityScore(content).
keywordCounts(content) ==
    LET text == toLowerCase(content)
    IN <<hits(positiveWords, text), hits(negativeWords, text)>>

\* (positive hits, negative hits) of the submitted text.
KeywordCounts == {keywordCounts(HopelessText)}

fallbackPositivityScore(posCount, negCount) ==
    Min(100, Max(0, 50 + posCount * 5 - negCount * 8))

PositivityOutcomes(key) ==
    LET fallback == {fallbackPositivityScore(k[1], k[2]) : k \in KeywordCounts}
    IN IF key THEN {90} ELSE fallback

\* What the chat endpoint can answer to the positivity scorer; a parsed score
\* is in tenths.
PositivityResponses ==
    {[kind |-> k, score |-> 0] : k \in {"throws", "http_error", "no_content", "unparsable"}}
    \cup {[kind |-> "parsed", score |-> x] : x \in {-50, 0, 725, 850, 1200}}

\* analyzePositivity(content), in tenths.
analyzePositivity(key, content, resp) ==
    IF ~key \/ resp.kind # "parsed"
        THEN 10 * fallbackPositivityScore(keywordCounts(content)[1], keywordCounts(content)[2])
        ELSE Min(1000, Max(0, IF resp.score = 0 THEN 500 ELSE resp.score))

\* --------------------------------------------------------- content tables

ContentTypes == {"video", "post"}

AllItems == ({"video"} \X (1..MaxVideos)) \cup ({"post"} \X (1..MaxPosts))

TableOf(type) == IF type = "video" THEN videos ELSE posts

Exists(item) == item[2] \in Ids(TableOf(item[1]))

Row(item) == TableOf(item[1])[item[2]]

\* The row POST /api/content/video/upload inserts.
NewVideoRow(category, userId) ==
    [elementCategory |-> category, createdBy |-> userId, createdAt |-> now,
     uploadStatus |-> "Under Review", moderationStatus |-> "requires_review",
     aiAnalysisResult |-> NULL, safetyAssessment |-> NULL, positivityScore |-> NoScore,
     viewCount |-> 0, moderationNotes |-> NULL, moderatedBy |-> NULL, moderatedAt |-> 0]

\* The row POST /api/content/post/create inserts.
NewElementPostRow(category, userId) ==
    [elementCategory |-> category, authorId |-> userId, createdAt |-> now,
     uploadStatus |-> "Under Review", moderationStatus |-> "requires_review",
     safetyAssessment |-> NULL, positivityScore |-> NoScore,
     viewCount |-> 0, engagementScore |-> 0]

\* The row DatabaseStorage.createPost inserts: the status columns take the
\* defaults of the posts table.
DefaultPostRow(category, userId) ==
    [elementCategory |-> category, authorId |-> userId, createdAt |-> now,
     uploadStatus |-> "Published", moderationStatus |-> "auto_approved",
     safetyAssessment |-> NULL, positivityScore |-> NoScore,
     viewCount |-> 0, engagementScore |-> 0]

UserIds == {"u1"}

ModeratorIds == {"mod1"}

\* Category the author picks at submission (the pipeline overwrites it).
SubmittedCategories == {"Earth"}

\* ------------------------------------------------------- decision policy

\* Confidence below which a video goes to review, in tenths (0.5).
LowConfidence == 5

\* videoDecision with the boundary confidence 0.5 sent to review as well.
videoDecisionInclusive(safety, analysis) ==
    IF ~safety.isSafe
        THEN (IF safety.riskLevel = "high" THEN "rejected" ELSE "requires_review")
    ELSE IF analysis.confidence <= LowConfidence THEN "requires_review"
    ELSE "auto_approved"

videoDecision(safety, analysis) ==
    IF ~safety.isSafe
        THEN (IF safety.riskLevel = "high" THEN "rejected" ELSE "requires_review")
    ELSE IF analysis.confidence < LowConfidence THEN "requires_review"
    ELSE "auto_approved"

postDecision(safety, analysis) ==
    IF ~safety.isSafe
        THEN (IF safety.riskLevel = "high" THEN "rejected" ELSE "requires_review")
    ELSE "auto_approved"

moderationDecision(type, safety, analysis) ==
    IF type = "video" THEN videoDecision(safety, analysis) ELSE postDecision(safety, analysis)

\* uploadStatusOf without the Flagged case.
uploadStatusOfTwoWay(moderationStatus) ==
    IF moderationStatus = "auto_approved" THEN "Published" ELSE "Under Review"

\* The uploadStatus written together with a moderationStatus.
uploadStatusOf(moderationStatus) ==
    IF moderationStatus = "auto_approved" THEN "Published"
    ELSE IF moderationStatus = "rejected" THEN "Flagged"
    ELSE "Under Review"

\* decisionQueueEntry with every unsafe item queued at priority high.
decisionQueueEntryNoUrgent(item, safety, analysis) ==
    IF ~safety.isSafe
        THEN [contentId |-> item[2], contentType |-> item[1],
              aiFlaggedReason |-> [kind |-> "flags", flags |-> safety.flags, confidence |-> NoScore],
              priority |-> "high",
              status |-> "pending", createdAt |-> now]
        ELSE [contentId |-> item[2], contentType |-> item[1],
              aiFlaggedReason |-> [kind |-> "low_confidence", flags |-> {}, confidence |-> analysis.confidence],
              priority |-> "normal",
              status |-> "pending", createdAt |-> now]

\* The queue row a run inserts for a decision that is not auto_approved.
decisionQueueEntry(item, safety, analysis) ==
    IF ~safety.isSafe
        THEN [contentId |-> item[2], contentType |-> item[1],
              aiFlaggedReason |-> [kind |-> "flags", flags |-> safety.flags, confidence |-> NoScore],
              priority |-> IF safety.riskLevel = "high" THEN "urgent" ELSE "high",
              status |-> "pending", createdAt |-> now]
        ELSE [contentId |-> item[2], contentType |-> item[1],
              aiFlaggedReason |-> [kind |-> "low_confidence", flags |-> {}, confidence |-> analysis.confidence],
              priority |-> "normal",
              status |-> "pending", createdAt |-> now]

\* The queue row the catch block of processVideoUpload inserts.
errorQueueEntry(item) ==
    [contentId |-> item[2], contentType |-> item[1],
     aiFlaggedReason |-> [kind |-> "processing_error", flags |-> {}, confidence |-> NoScore],
     priority |-> "high",
     status |-> "pending", createdAt |-> now]

pipelineAuditEntryAlwaysPublish(item, actorId, moderationStatus) ==
    [action |-> "publish",
     actorId |-> actorId, contentId |-> item[2], contentType |-> item[1],
     changes |-> moderationStatus]

pipelineAuditEntry(item, actorId, moderationStatus) ==
    [action |-> IF moderationStatus = "auto_approved" THEN "publish" ELSE "moderate",
     actorId |-> actorId, contentId |-> item[2], contentType |-> item[1],
     changes |-> moderationStatus]

\* ------------------------------------------------------- pipeline runs

IdleTask ==
    [pc |-> "none", actorId |-> NULL, analysis |-> NULL, safety |-> NULL,
     positivityScore |-> NoScore, moderationStatus |-> NULL, threw |-> NULL,
     startedAt |-> 0, answeredAt |-> 0, safetyKind |-> NULL, paidCalls |-> {}]

trendIdle == UNCHANGED trendVars

recIdle == UNCHANGED recVars

libIdle == UNCHANGED libVars

feedIdle == UNCHANGED feedVars

serviceIdle == UNCHANGED service

queueIdle == UNCHANGED queueRead

storeIdle == UNCHANGED store

\* POST /api/content/video/upload: insert the row, start the detached run.
UploadVideo ==
    /\ Len(videos) < MaxVideos
    /\ \E c \in SubmittedCategories, u \in UserIds :
        /\ videos' = Append(videos, NewVideoRow(c, u))
        /\ tasks' = [tasks EXCEPT ![<<"video", Len(videos) + 1>>] =
                        [IdleTask EXCEPT !.pc = "analyze", !.actorId = u, !.startedAt = now]]
    /\ UNCHANGED <<OPENAI_API_KEY, posts, moderationQueue, auditLog, resolve, resolveCalls>>
    /\ trendIdle /\ recIdle /\ libIdle

\* POST /api/content/post/create: insert the row, start the detached run.
CreateElementPost ==
    /\ Len(posts) < MaxPosts
    /\ \E c \in SubmittedCategories, u \in UserIds :
        /\ posts' = Append(posts, NewElementPostRow(c, u))
        /\ tasks' = [tasks EXCEPT ![<<"post", Len(posts) + 1>>] =
                        [IdleTask EXCEPT !.pc = "analyze", !.actorId = u, !.startedAt = now]]
    /\ UNCHANGED <<OPENAI_API_KEY, videos, moderationQueue, auditLog, resolve, resolveCalls>>
    /\ trendIdle /\ recIdle /\ libIdle

\* POST /api/posts: storage.createPost, no pipeline run.
CreatePost ==
    /\ Len(posts) < MaxPosts
    /\ \E c \in SubmittedCategories, u \in UserIds :
        posts' = Append(posts, DefaultPostRow(c, u))
    /\ UNCHANGED <<OPENAI_API_KEY, videos, moderationQueue, auditLog, tasks, resolve, resolveCalls>>
    /\ trendIdle /\ recIdle /\ libIdle

\* Steps 1-4 of processVideoUpload / processPostCreation: the three analysis
\* calls (which catch their own failures) and the decision, all local to the run.
AnalyzeWith(item, analyses) ==
    /\ tasks[item].pc = "analyze"
    /\ \E a \in analyses,
          r \in (IF OPENAI_API_KEY THEN PipelineSafetyResponses ELSE {NotCalled}),
          p \in PositivityOutcomes(OPENAI_API_KEY) :
        LET safety == checkContentSafety(OPENAI_API_KEY, r)
            status == moderationDecision(item[1], safety, a)
        IN tasks' = [tasks EXCEPT ![item] =
                [@ EXCEPT !.pc = IF status = "auto_approved" THEN "update" ELSE "queue",
                          !.analysis = a, !.safety = safety, !.positivityScore = p,
                          !.moderationStatus = status,
                          !.answeredAt = now, !.safetyKind = safetyOutcome(r),
                          !.paidCalls = IF OPENAI_API_KEY
                                            THEN {"analyzeElement", "analyzePositivity"}
                                            ELSE {}]]
    /\ UNCHANGED <<OPENAI_API_KEY, videos, posts, moderationQueue, auditLog, resolve, resolveCalls>>
    /\ trendIdle /\ recIdle /\ libIdle

Analyze(item) == AnalyzeWith(item, AnalysisOutcomes(OPENAI_API_KEY))

\* The same steps of a run whose item carries the submitted text service.text:
\* the classifier is called with that text.
AnalyzeSubmitted(item) ==
    \E resp \in ClassifierResponses :
        AnalyzeWith(item, analyzeElement(OPENAI_API_KEY, SampleTexts[service.text], resp))

\* db.insert(moderationQueue) of the decision branch.
InsertQueueEntry(item) ==
    /\ tasks[item].pc = "queue"
    /\ moderationQueue' = Append(moderationQueue,
            decisionQueueEntry(item, tasks[item].safety, tasks[item].analysis))
    /\ tasks' = [tasks EXCEPT ![item].pc = "update"]
    /\ UNCHANGED <<OPENAI_API_KEY, videos, posts, auditLog, resolve, resolveCalls>>
    /\ trendIdle /\ recIdle /\ libIdle

\* Step 5: one UPDATE of the item's row (no row is touched if the id is gone).
UpdateContent(item) ==
    /\ tasks[item].pc = "update"
    /\ LET t == tasks[item]
       IN IF item[1] = "video"
            THEN /\ videos' = [videos EXCEPT ![item[2]] =
                        [@ EXCEPT !.elementCategory = t.analysis.elementType,
                                  !.aiAnalysisResult = t.analysis,
                                  !.safetyAssessment = t.safety,
                                  !.moderationStatus = t.moderationStatus,
                                  !.uploadStatus = uploadStatusOf(t.moderationStatus),
                                  !.positivityScore = t.positivityScore]]
                 /\ posts' = posts
            ELSE /\ posts' = [posts EXCEPT ![item[2]] =
                        [@ EXCEPT !.elementCategory = t.analysis.elementType,
                                  !.safetyAssessment = t.safety,
                                  !.moderationStatus = t.moderationStatus,
                                  !.uploadStatus = uploadStatusOf(t.moderationStatus),
                                  !.positivityScore = t.positivityScore]]
                 /\ videos' = videos
    /\ tasks' = [tasks EXCEPT ![item].pc = "audit"]
    /\ UNCHANGED <<OPENAI_API_KEY, moderationQueue, auditLog, resolve, resolveCalls>>
    /\ trendIdle /\ recIdle /\ libIdle

\* Step 6: db.insert(auditLog), then return { success: true }.
InsertAudit(item) ==
    /\ tasks[item].pc = "audit"
    /\ auditLog' = Append(auditLog,
            pipelineAuditEntry(item, tasks[item].actorId, tasks[item].moderationStatus))
    /\ tasks' = [tasks EXCEPT ![item].pc = "returned"]
    /\ UNCHANGED <<OPENAI_API_KEY, videos, posts, moderationQueue, resolve, resolveCalls>>
    /\ trendIdle /\ recIdle /\ libIdle

\* An awaited database call of the try block rejects: control enters catch.
Throw(item) ==
    /\ tasks[item].pc \in {"queue", "update", "audit"}
    /\ tasks' = [tasks EXCEPT ![item] = [@ EXCEPT !.pc = "catch", !.threw = tasks[item].pc]]
    /\ UNCHANGED <<OPENAI_API_KEY, videos, posts, moderationQueue, auditLog, resolve, resolveCalls>>
    /\ trendIdle /\ recIdle /\ libIdle

\* catch: the UPDATE to requires_review / Under Review. processPostCreation
\* returns after it; processVideoUpload goes on to the queue insert.
CatchUpdate(item) ==
    /\ tasks[item].pc = "catch"
    /\ IF item[1] = "video"
        THEN /\ videos' = [videos EXCEPT ![item[2]] =
                    [@ EXCEPT !.moderationStatus = "requires_review",
                              !.uploadStatus = "Under Review"]]
             /\ posts' = posts
             /\ tasks' = [tasks EXCEPT ![item].pc = "catch_queue"]
        ELSE /\ posts' = [posts EXCEPT ![item[2]] =
                    [@ EXCEPT !.moderationStatus = "requires_review",
                              !.uploadStatus = "Under Review"]]
             /\ videos' = videos
             /\ tasks' = [tasks EXCEPT ![item].pc = "failed"]
    /\ UNCHANGED <<OPENAI_API_KEY, moderationQueue, auditLog, resolve, resolveCalls>>
    /\ trendIdle /\ recIdle /\ libIdle

\* catch of processVideoUpload: the queue insert, then return { success: false }.
CatchQueue(item) ==
    /\ tasks[item].pc = "catch_queue"
    /\ moderationQueue' = Append(moderationQueue, errorQueueEntry(item))
    /\ tasks' = [tasks EXCEPT ![item].pc = "failed"]
    /\ UNCHANGED <<OPENAI_API_KEY, videos, posts, auditLog, resolve, resolveCalls>>
    /\ trendIdle /\ recIdle /\ libIdle

\* ------------------------------------------------------ human resolution

IdleResolve ==
    [pc |-> "idle", contentId |-> 0, contentType |-> NULL, decision |-> NULL,
     moderatorId |-> NULL, repeat |-> FALSE]

resolveAuditEntry(contentId, contentType, decision, moderatorId) ==
    [action |-> IF decision = "approved" THEN "publish" ELSE "reject",
     actorId |-> moderatorId, contentId |-> contentId, contentType |-> contentType,
     changes |-> decision]

resolvedStatus(decision) == IF decision = "approved" THEN "auto_approved" ELSE "rejected"

resolvedUploadStatus(decision) == IF decision = "approved" THEN "Published" ELSE "Flagged"

\* The database is as a completed resolveModeration(contentId, contentType,
\* decision, _, moderatorId) leaves it and nothing was audited since: the call
\* about to start repeats the previous one. (History kept for the statement
\* about repeated resolutions; no code reads it.)
RepeatsLastResolve(contentId, contentType, decision, moderatorId) ==
    /\ Exists(<<contentType, contentId>>)
    /\ Row(<<contentType, contentId>>).moderationStatus = resolvedStatus(decision)
    /\ Row(<<contentType, contentId>>).uploadStatus = resolvedUploadStatus(decision)
    /\ \A q \in Ids(moderationQueue) :
        moderationQueue[q].contentId = contentId => moderationQueue[q].status = "resolved"
    /\ auditLog # <<>>
    /\ Last(auditLog) = resolveAuditEntry(contentId, contentType, decision, moderatorId)

\* resolveModeration up to its first await: the UPDATE of the content row.
\* A video row is stamped with the moderator and the time, a post row is not.
ResolveUpdate ==
    /\ resolve.pc = "idle"
    /\ resolveCalls < MaxResolves
    /\ \E item \in {i \in AllItems : Exists(i)},
          decision \in {"approved", "rejected"}, moderatorId \in ModeratorIds :
        LET contentId == item[2]
            contentType == item[1]
        IN
        /\ resolve' = [pc |-> "queue", contentId |-> contentId, contentType |-> contentType,
                       decision |-> decision, moderatorId |-> moderatorId,
                       repeat |-> RepeatsLastResolve(contentId, contentType, decision, moderatorId)]
        /\ IF contentType = "video"
            THEN /\ videos' = [i \in Ids(videos) |->
                        IF i = contentId
                            THEN [videos[i] EXCEPT !.moderationStatus = resolvedStatus(decision),
                                                   !.uploadStatus = resolvedUploadStatus(decision),
                                                   !.moderatedBy = moderatorId,
                                                   !.moderatedAt = resolveCalls + 1]
                            ELSE videos[i]]
                 /\ posts' = posts
            ELSE /\ posts' = [i \in Ids(posts) |->
                        IF i = contentId
                            THEN [posts[i] EXCEPT !.moderationStatus = resolvedStatus(decision),
                                                  !.uploadStatus = resolvedUploadStatus(decision)]
                            ELSE posts[i]]
                 /\ videos' = videos
    /\ resolveCalls' = resolveCalls + 1
    /\ UNCHANGED <<OPENAI_API_KEY, moderationQueue, auditLog, tasks>>
    /\ trendIdle /\ recIdle /\ libIdle

\* UPDATE moderation_queue SET status = 'resolved' WHERE content_id = contentId.
ResolveQueue ==
    /\ resolve.pc = "queue"
    /\ moderationQueue' = [q \in Ids(moderationQueue) |->
            IF moderationQueue[q].contentId = resolve.contentId
                THEN [moderationQueue[q] EXCEPT !.status = "resolved"]
                ELSE moderationQueue[q]]
    /\ resolve' = [resolve EXCEPT !.pc = "audit"]
    /\ UNCHANGED <<OPENAI_API_KEY, videos, posts, auditLog, tasks, resolveCalls>>
    /\ trendIdle /\ recIdle /\ libIdle

\* db.insert(auditLog), then the call returns.
ResolveAudit ==
    /\ resolve.pc = "audit"
    /\ auditLog' = Append(auditLog,
            resolveAuditEntry(resolve.contentId, resolve.contentType, resolve.decision, resolve.moderatorId))
    /\ resolve' = [resolve EXCEPT !.pc = "idle"]
    /\ UNCHANGED <<OPENAI_API_KEY, videos, posts, moderationQueue, tasks, resolveCalls>>
    /\ trendIdle /\ recIdle /\ libIdle

\* ------------------------------------------------------------ moderation spec

InitModeration ==
    /\ OPENAI_API_KEY \in BOOLEAN
    /\ videos = <<>>
    /\ posts = <<>>
    /\ moderationQueue = <<>>
    /\ auditLog = <<>>
    /\ tasks = [item \in AllItems |-> IdleTask]
    /\ resolve = IdleResolve
    /\ resolveCalls = 0

InitTrendingIdle ==
    /\ contentTrending = <<>>
    /\ trendRuns = <<>>
    /\ timers = [startup |-> FALSE, ticks |-> 0]
    /\ trendBaseline = [valid |-> FALSE, rows |-> <<>>]

InitRecsIdle ==
    /\ userRecommendations = <<>>
    /\ viewSessions = <<>>
    /\ recCalls = <<>>
    /\ recHistory = <<>>
    /\ now = 0

\* The feed service as loaded: empty cache, no read made.
InitFeedIdle ==
    /\ service = <<>>
    /\ queueRead = <<>>
    /\ store = <<>>
    /\ feedCache = <<>>
    /\ feedCalls = <<>>
    /\ feedClock = 0
    /\ feedClears = 0

\* The cost monitor as constructed without OPENAI_BUDGET_LIMIT_USD; no
\* ranking call, no batcher.
InitLibIdle ==
    /\ costMonitor = [budgetLimitUSD |-> DefaultBudgetLimit, records |-> <<>>, recorded |-> <<>>]
    /\ ranking = [items |-> <<>>, output |-> <<>>, called |-> FALSE]
    /\ batcher = <<>>
    /\ InitFeedIdle

Init == InitRecsIdle /\ InitTrendingIdle /\ InitLibIdle /\ InitModeration

Next ==
    \/ UploadVideo
    \/ CreateElementPost
    \/ CreatePost
    \/ \E item \in AllItems : Analyze(item)
    \/ \E item \in AllItems : InsertQueueEntry(item)
    \/ \E item \in AllItems : UpdateContent(item)
    \/ \E item \in AllItems : InsertAudit(item)
    \/ \E item \in AllItems : Throw(item)
    \/ \E item \in AllItems : CatchUpdate(item)
    \/ \E item \in AllItems : CatchQueue(item)
    \/ ResolveUpdate
    \/ ResolveQueue
    \/ ResolveAudit

Spec == Init /\ [][Next]_vars

\* ------------------------------------------------------ trending calculator

getPositivityMultiplier(score) ==
    IF score >= 90 THEN 30
    ELSE IF score >= 70 THEN 15
    ELSE IF score >= 50 THEN 10
    ELSE 5

\* views * 0.6 + engagement * 0.4, times the multiplier (in tenths) when the
\* positivity score is not null; toFixed(2) keeps the hundredths.
trendingScore(viewCount24h, engagementCount24h, positivityScore) ==
    LET base == viewCount24h * 60 + engagementCount24h * 40
    IN IF positivityScore # NoScore
        THEN (base * getPositivityMultiplier(positivityScore)) \div 10
        ELSE base

\* Math.floor(viewCount24h * 0.3)
videoEngagement(viewCount24h) == (viewCount24h * 3) \div 10

RunSlots == 1..(MaxTicks + 1)

IdleRun ==
    [phase |-> "idle", element |-> 0, type |-> NULL, list |-> <<>>, k |-> 0,
     existing |-> 0, clean |-> FALSE]

Running(r) == trendRuns[r].phase \notin {"idle", "done"}

RunningSlots == {r \in RunSlots : Running(r)}

\* The ids in set S in increasing order, as a sequence.
RECURSIVE SortedIds(_)
SortedIds(S) ==
    IF S = {} THEN <<>>
    ELSE LET m == CHOOSE x \in S : \A y \in S : x <= y
         IN <<m>> \o SortedIds(S \ {m})

\* calculateTrendingScores is called: by the startup timeout (slot 1) or by a
\* firing of the interval. Nothing checks whether a run is in progress.
StartRun(r) ==
    trendRuns' = [s \in RunSlots |->
        IF s = r
            THEN [IdleRun EXCEPT !.phase = "select_videos", !.element = 1,
                                 !.clean = (RunningSlots = {})]
            ELSE [trendRuns[s] EXCEPT !.clean = FALSE]]

modIdle == UNCHANGED modVars

\* setTimeout(..., 5000): the initial calculation.
StartupTimeout ==
    /\ ~timers.startup
    /\ timers' = [timers EXCEPT !.startup = TRUE]
    /\ StartRun(1)
    /\ UNCHANGED <<contentTrending, trendBaseline>>
    /\ modIdle /\ recIdle /\ libIdle

\* setInterval(..., 60 * 60 * 1000): one firing (the first comes after the
\* startup timeout).
IntervalTick ==
    /\ timers.startup
    /\ timers.ticks < MaxTicks
    /\ Cardinality(RunningSlots) < MaxConcurrentRuns
    /\ timers' = [timers EXCEPT !.ticks = @ + 1]
    /\ StartRun(timers.ticks + 2)
    /\ UNCHANGED <<contentTrending, trendBaseline>>
    /\ modIdle /\ recIdle /\ libIdle

\* After the last item of a list, or an empty list: the posts of the same
\* element after its videos, the next element after its posts, the end after
\* the last element.
AfterList(run) ==
    IF run.type = "video"
        THEN [run EXCEPT !.phase = "select_posts", !.list = <<>>, !.k = 0, !.existing = 0]
    ELSE IF run.element < Len(Elements)
        THEN [run EXCEPT !.phase = "select_videos", !.element = @ + 1,
                         !.list = <<>>, !.k = 0, !.existing = 0]
    ELSE [run EXCEPT !.phase = "done", !.list = <<>>, !.k = 0, !.existing = 0]

\* The rows of the previous state a completed undisturbed run is compared with,
\* and the rows it leaves as the next baseline.
TrendRows(table) ==
    [t \in Ids(table) |->
        [contentId |-> table[t].contentId, contentType |-> table[t].contentType,
         trendingScore |-> table[t].trendingScore]]

BaselineAfter(run, table) ==
    IF run.phase = "done" /\ run.clean
        THEN [valid |-> TRUE, rows |-> TrendRows(table)]
        ELSE trendBaseline

\* SELECT id, viewCount, positivityScore FROM videos WHERE element AND Published.
SelectVideos(r) ==
    /\ trendRuns[r].phase = "select_videos"
    /\ LET element == Elements[trendRuns[r].element]
           ids == {i \in Ids(videos) :
                    videos[i].elementCategory = element /\ videos[i].uploadStatus = "Published"}
           list == [n \in 1..Cardinality(ids) |->
                    LET i == SortedIds(ids)[n]
                    IN [id |-> i, viewCount |-> videos[i].viewCount,
                        engagementScore |-> 0,
                        positivityScore |-> videos[i].positivityScore]]
           run == [trendRuns[r] EXCEPT !.type = "video", !.list = list]
       IN trendRuns' = [trendRuns EXCEPT ![r] =
            IF list = <<>> THEN AfterList(run)
            ELSE [run EXCEPT !.phase = "lookup", !.k = 1]]
    /\ UNCHANGED <<contentTrending, timers, trendBaseline>>
    /\ modIdle /\ recIdle /\ libIdle

\* SELECT id, viewCount, engagementScore, positivityScore FROM posts WHERE ...
SelectPosts(r) ==
    /\ trendRuns[r].phase = "select_posts"
    /\ LET element == Elements[trendRuns[r].element]
           ids == {i \in Ids(posts) :
                    posts[i].elementCategory = element /\ posts[i].uploadStatus = "Published"}
           list == [n \in 1..Cardinality(ids) |->
                    LET i == SortedIds(ids)[n]
                    IN [id |-> i, viewCount |-> posts[i].viewCount,
                        engagementScore |-> posts[i].engagementScore,
                        positivityScore |-> posts[i].positivityScore]]
           run == [trendRuns[r] EXCEPT !.type = "post", !.list = list]
           next == IF list = <<>> THEN AfterList(run)
                   ELSE [run EXCEPT !.phase = "lookup", !.k = 1]
       IN /\ trendRuns' = [trendRuns EXCEPT ![r] = next]
          /\ trendBaseline' = BaselineAfter(next, contentTrending)
    /\ UNCHANGED <<contentTrending, timers>>
    /\ modIdle /\ recIdle /\ libIdle

\* SELECT * FROM content_trending WHERE contentId AND contentType: the rows come
\* in no stated order, and existing[0] is whichever comes first.
LookupExisting(r) ==
    /\ trendRuns[r].phase = "lookup"
    /\ LET run == trendRuns[r]
           matches == {t \in Ids(contentTrending) :
                        /\ contentTrending[t].contentId = run.list[run.k].id
                        /\ contentTrending[t].contentType = run.type}
       IN \E first \in (IF matches = {} THEN {0} ELSE matches) :
            trendRuns' = [trendRuns EXCEPT ![r] = [run EXCEPT !.phase = "upsert", !.existing = first]]
    /\ UNCHANGED <<contentTrending, timers, trendBaseline>>
    /\ modIdle /\ recIdle /\ libIdle

\* The UPDATE of existing[0], or the INSERT when the select found no row.
Upsert(r) ==
    /\ trendRuns[r].phase = "upsert"
    /\ LET run == trendRuns[r]
           it == run.list[run.k]
           views == it.viewCount
           engagement == IF run.type = "video" THEN videoEngagement(views) ELSE it.engagementScore
           score == trendingScore(views, engagement, it.positivityScore)
           table == IF run.existing > 0
                        THEN [contentTrending EXCEPT ![run.existing] =
                                [@ EXCEPT !.trendingScore = score, !.viewCount24h = views,
                                          !.engagementCount24h = engagement]]
                        ELSE Append(contentTrending,
                                [contentId |-> it.id, contentType |-> run.type,
                                 elementCategory |-> Elements[run.element],
                                 trendingScore |-> score, viewCount24h |-> views,
                                 engagementCount24h |-> engagement])
           next == IF run.k < Len(run.list)
                        THEN [run EXCEPT !.phase = "lookup", !.k = @ + 1, !.existing = 0]
                        ELSE AfterList(run)
       IN /\ contentTrending' = table
          /\ trendRuns' = [trendRuns EXCEPT ![r] = next]
          /\ trendBaseline' = BaselineAfter(next, table)
    /\ UNCHANGED timers
    /\ modIdle /\ recIdle /\ libIdle

\* incrementViewCount: POST /api/content/:contentId/view.
IncrementViewCount(item) ==
    /\ Exists(item)
    /\ Row(item).viewCount < MaxViewCount
    /\ IF item[1] = "video"
        THEN videos' = [videos EXCEPT ![item[2]].viewCount = @ + 1] /\ posts' = posts
        ELSE posts' = [posts EXCEPT ![item[2]].viewCount = @ + 1] /\ videos' = videos
    /\ trendRuns' = [s \in RunSlots |-> [trendRuns[s] EXCEPT !.clean = FALSE]]
    /\ trendBaseline' = [valid |-> FALSE, rows |-> <<>>]
    /\ UNCHANGED <<OPENAI_API_KEY, moderationQueue, auditLog, tasks, resolve, resolveCalls>>
    /\ UNCHANGED <<contentTrending, timers>>
    /\ recIdle /\ libIdle

\* Published content as approval leaves it: a video approved by its run or by a
\* moderator after a failed run (no positivity score), a post approved by its run.
PublishedVideoRows ==
    {[NewVideoRow("Water", u) EXCEPT !.uploadStatus = "Published",
                                     !.moderationStatus = "auto_approved",
                                     !.positivityScore = p] :
        u \in UserIds, p \in {NoScore, 90}}

PublishedPostRows ==
    {[NewElementPostRow("Water", u) EXCEPT !.uploadStatus = "Published",
                                           !.moderationStatus = "auto_approved",
                                           !.positivityScore =
                                                fallbackPositivityScore(keywordCounts(HopelessText)[1],
                                                                        keywordCounts(HopelessText)[2]),
                                           !.engagementScore = 5] :
        u \in UserIds}

InitTrending ==
    /\ InitRecsIdle
    /\ InitLibIdle
    /\ OPENAI_API_KEY = FALSE
    /\ videos \in {<<v>> : v \in PublishedVideoRows}
    /\ posts \in {<<q>> : q \in PublishedPostRows}
    /\ moderationQueue = <<>>
    /\ auditLog = <<>>
    /\ tasks = [item \in AllItems |-> IdleTask]
    /\ resolve = IdleResolve
    /\ resolveCalls = 0
    /\ contentTrending = <<>>
    /\ trendRuns = [r \in RunSlots |-> IdleRun]
    /\ timers = [startup |-> FALSE, ticks |-> 0]
    /\ trendBaseline = [valid |-> FALSE, rows |-> <<>>]

NextTrending ==
    \/ StartupTimeout
    \/ IntervalTick
    \/ \E r \in RunSlots : SelectVideos(r)
    \/ \E r \in RunSlots : SelectPosts(r)
    \/ \E r \in RunSlots : LookupExisting(r)
    \/ \E r \in RunSlots : Upsert(r)
    \/ \E item \in AllItems : IncrementViewCount(item)

SpecTrending == InitTrending /\ [][NextTrending]_vars

\* Published videos that have been viewed, of each positivity tier.
ViewedVideoRows ==
    {[NewVideoRow("Water", u) EXCEPT !.uploadStatus = "Published",
                                     !.moderationStatus = "auto_approved",
                                     !.viewCount = 10,
                                     !.positivityScore = p] :
        u \in UserIds, p \in {NoScore, 45, 60, 75, 90}}

InitTrendingViewed ==
    /\ InitRecsIdle
    /\ InitLibIdle
    /\ OPENAI_API_KEY = FALSE
    /\ videos \in {<<v>> : v \in ViewedVideoRows}
    /\ posts \in {<<q>> : q \in PublishedPostRows}
    /\ moderationQueue = <<>>
    /\ auditLog = <<>>
    /\ tasks = [item \in AllItems |-> IdleTask]
    /\ resolve = IdleResolve
    /\ resolveCalls = 0
    /\ contentTrending = <<>>
    /\ trendRuns = [r \in RunSlots |-> IdleRun]
    /\ timers = [startup |-> FALSE, ticks |-> 0]
    /\ trendBaseline = [valid |-> FALSE, rows |-> <<>>]

SpecTrendingViewed == InitTrendingViewed /\ [][NextTrending]_vars

\* ------------------------------------------------------ recommendations

\* Hours a cache row stays valid.
CacheHours == 4

\* Candidates fetched per requested item.
PoolFactor == 3

\* View sessions read for the history.
RecentSessions == 50

RecUsers == {"u1"}

RecCategories == {"Water"}

RecLimits == {1}

\* Values of 0.8 + Math.random() * 0.4, in tenths.
JitterValues == {8, 11}

\* Times the clock is read at, in hours.
ClockValues == {0, 4}

RecSlots == 1..MaxConcurrentCalls

IdleCall ==
    [pc |-> "idle", userId |-> NULL, elementCategory |-> NULL, limit |-> 0,
     cachedId |-> 0, cachedIds |-> <<>>, pool |-> <<>>, result |-> <<>>, expiresAt |-> 0,
     prev |-> [valid |-> FALSE, ids |-> {}, expiresAt |-> 0, videos |-> <<>>]]

Range(seq) == {seq[i] : i \in 1..Len(seq)}

\* The first n members of DOMAIN key ordered by key descending, equal keys
\* in increasing order of the members (a stable sort of a list in position
\* order).
TopBy(key, n) ==
    LET S == DOMAIN key
        before(a, b) == key[a] > key[b] \/ (key[a] = key[b] /\ a < b)
        rank(a) == Cardinality({b \in S : before(b, a)})
    IN [k \in 1..Min(n, Cardinality(S)) |-> CHOOSE a \in S : rank(a) = k - 1]

\* The score of generateRecommendations, scaled to an integer: views * 0.3,
\* the positivity multiplier, 0.1 if viewed, 1.5 / 1.2 by age, the jitter.
recommendationScore(video, viewed, ageHours, jitter) ==
    video.viewCount * 3
        * (IF video.positivityScore # NoScore THEN getPositivityMultiplier(video.positivityScore) ELSE 10)
        * (IF viewed THEN 1 ELSE 10)
        * (IF ageHours < 24 THEN 15 ELSE IF ageHours < 72 THEN 12 ELSE 10)
        * jitter

fetchContentByIdsAnyStatus(ids) ==
    SortedIds({i \in Ids(videos) : i \in Range(ids)})

\* fetchContentByIds: the Published videos among ids.
fetchContentByIds(ids) ==
    SortedIds({i \in Ids(videos) : i \in Range(ids) /\ videos[i].uploadStatus = "Published"})

\* The call is made and its first await returns: SELECT ... FROM
\* user_recommendations WHERE userId AND elementCategory LIMIT 1 (any matching
\* row), then the freshness test on the row read.
RecSelectCache(c) ==
    /\ recCalls[c].pc = "idle"
    /\ \A d \in RecSlots : d < c => recCalls[d].pc # "idle"
    /\ \E u \in RecUsers, e \in RecCategories, limit \in RecLimits :
        LET matches == {r \in Ids(userRecommendations) :
                            /\ userRecommendations[r].userId = u
                            /\ userRecommendations[r].elementCategory = e}
            h == recHistory[<<u, e>>]
            prev == IF h.valid /\ now < h.expiresAt /\ videos = h.videos
                        THEN h ELSE IdleCall.prev
        IN \E first \in (IF matches = {} THEN {0} ELSE matches) :
            LET ids == IF first = 0 THEN <<>> ELSE userRecommendations[first].recommendedContentIds
                hit == /\ first # 0
                       /\ userRecommendations[first].expiresAt > now
                       /\ Len(ids) > 0
            IN recCalls' = [recCalls EXCEPT ![c] =
                    [IdleCall EXCEPT !.pc = IF hit THEN "fetch" ELSE "pool",
                                     !.userId = u, !.elementCategory = e, !.limit = limit,
                                     !.cachedId = first,
                                     !.cachedIds = IF hit THEN ids ELSE <<>>,
                                     !.expiresAt = IF hit THEN userRecommendations[first].expiresAt ELSE 0,
                                     !.prev = prev]]
    /\ UNCHANGED <<userRecommendations, viewSessions, recHistory, now>>
    /\ modIdle /\ trendIdle /\ libIdle

\* The latest response per user and category: the ids returned, the expiry of
\* the cache row they were read from or written to, and the videos table at
\* that moment.
HistoryAfter(call, ids, expiresAt) ==
    [recHistory EXCEPT ![<<call.userId, call.elementCategory>>] =
        [valid |-> TRUE, ids |-> Range(ids), expiresAt |-> expiresAt, videos |-> videos]]

\* Cache hit: return fetchContentByIds(contentIds).
RecFetch(c) ==
    /\ recCalls[c].pc = "fetch"
    /\ LET call == recCalls[c]
           result == fetchContentByIds(call.cachedIds)
       IN /\ recCalls' = [recCalls EXCEPT ![c] = IdleCall]
          /\ recHistory' = HistoryAfter(call, result, call.expiresAt)
    /\ UNCHANGED <<userRecommendations, viewSessions, now>>
    /\ modIdle /\ trendIdle /\ libIdle

\* generateRecommendations, first await: the limit * 3 most viewed videos of
\* the category that are Published and auto_approved.
RecSelectPool(c) ==
    /\ recCalls[c].pc = "pool"
    /\ LET call == recCalls[c]
           candidates == {i \in Ids(videos) :
                            /\ videos[i].elementCategory = call.elementCategory
                            /\ videos[i].uploadStatus = "Published"
                            /\ videos[i].moderationStatus = "auto_approved"}
           ids == TopBy([i \in candidates |-> videos[i].viewCount], call.limit * PoolFactor)
       IN recCalls' = [recCalls EXCEPT ![c] =
            [call EXCEPT !.pc = "rank",
                         !.pool = [k \in 1..Len(ids) |->
                                    [id |-> ids[k], viewCount |-> videos[ids[k]].viewCount,
                                     positivityScore |-> videos[ids[k]].positivityScore,
                                     createdAt |-> videos[ids[k]].createdAt]]]]
    /\ UNCHANGED <<userRecommendations, viewSessions, recHistory, now>>
    /\ modIdle /\ trendIdle /\ libIdle

\* generateRecommendations, second await: the user's 50 latest view sessions,
\* then the scoring with its random factor, the sort and the cut to limit,
\* and back in getUserRecommendations the expiry of the row to write.
RecRank(c) ==
    /\ recCalls[c].pc = "rank"
    /\ LET call == recCalls[c]
           mine == {v \in Ids(viewSessions) : viewSessions[v].userId = call.userId}
           recent == TopBy([v \in mine |-> v], RecentSessions)
           viewedIds == {viewSessions[recent[k]].contentId : k \in 1..Len(recent)}
           slots == 1..Len(call.pool)
       IN \E jitter \in [slots -> JitterValues] :
            LET score == [k \in slots |->
                            recommendationScore(call.pool[k], call.pool[k].id \in viewedIds,
                                                now - call.pool[k].createdAt, jitter[k])]
                top == TopBy(score, call.limit)
            IN recCalls' = [recCalls EXCEPT ![c] =
                    [call EXCEPT !.pc = "store", !.pool = <<>>,
                                 !.expiresAt = now + CacheHours,
                                 !.result = [k \in 1..Len(top) |-> call.pool[top[k]].id]]]
    /\ UNCHANGED <<userRecommendations, viewSessions, recHistory, now>>
    /\ modIdle /\ trendIdle /\ libIdle

\* The UPDATE of the row read at the start, or the INSERT when none was read;
\* then return recommendations.
RecStore(c) ==
    /\ recCalls[c].pc = "store"
    /\ LET call == recCalls[c]
           expiresAt == call.expiresAt
       IN /\ userRecommendations' =
                IF call.cachedId # 0
                    THEN [userRecommendations EXCEPT ![call.cachedId] =
                            [@ EXCEPT !.recommendedContentIds = call.result,
                                      !.expiresAt = expiresAt]]
                    ELSE Append(userRecommendations,
                            [userId |-> call.userId, elementCategory |-> call.elementCategory,
                             recommendedContentIds |-> call.result, expiresAt |-> expiresAt])
          /\ recCalls' = [recCalls EXCEPT ![c] = IdleCall]
          /\ recHistory' = HistoryAfter(call, call.result, expiresAt)
    /\ UNCHANGED <<viewSessions, now>>
    /\ modIdle /\ trendIdle /\ libIdle

\* POST /api/content/:contentId/watch/start
WatchStart ==
    /\ Len(viewSessions) < MaxSessions
    /\ \E u \in RecUsers, i \in Ids(videos) :
        viewSessions' = Append(viewSessions, [userId |-> u, contentId |-> i, contentType |-> "video"])
    /\ UNCHANGED <<userRecommendations, recCalls, recHistory, now>>
    /\ modIdle /\ trendIdle /\ libIdle

\* Time passes.
AdvanceClock ==
    /\ \E t \in ClockValues : t > now /\ now' = t
    /\ UNCHANGED <<userRecommendations, viewSessions, recCalls, recHistory>>
    /\ modIdle /\ trendIdle /\ libIdle

\* No video at all, or two approved videos of one category: an older one with
\* more views and a newer one with fewer.
RecCatalogue ==
    {<<>>} \cup
    {<<[NewVideoRow("Water", u) EXCEPT !.uploadStatus = "Published",
                                       !.moderationStatus = "auto_approved",
                                       !.positivityScore = 90, !.viewCount = 12,
                                       !.createdAt = -100],
       [NewVideoRow("Water", u) EXCEPT !.uploadStatus = "Published",
                                       !.moderationStatus = "auto_approved",
                                       !.positivityScore = 90, !.viewCount = 10,
                                       !.createdAt = -10]>> : u \in UserIds}

InitRecs ==
    /\ now = 0
    /\ InitLibIdle
    /\ OPENAI_API_KEY = FALSE
    /\ videos \in RecCatalogue
    /\ posts = <<>>
    /\ moderationQueue = <<>>
    /\ auditLog = <<>>
    /\ tasks = [item \in AllItems |-> IdleTask]
    /\ resolve = IdleResolve
    /\ resolveCalls = 0
    /\ InitTrendingIdle
    /\ userRecommendations = <<>>
    /\ viewSessions = <<>>
    /\ recCalls = [c \in RecSlots |-> IdleCall]
    /\ recHistory = [k \in RecUsers \X RecCategories |-> IdleCall.prev]

NextRecs ==
    \/ \E c \in RecSlots : RecSelectCache(c)
    \/ \E c \in RecSlots : RecFetch(c)
    \/ \E c \in RecSlots : RecSelectPool(c)
    \/ \E c \in RecSlots : RecRank(c)
    \/ \E c \in RecSlots : RecStore(c)
    \/ WatchStart
    \/ AdvanceClock

SpecRecs == InitRecs /\ [][NextRecs]_vars

\* The catalogue after a decision on its second video. A video that was
\* recommended was Published and auto_approved; since then a moderator has
\* rejected it, or a late failure of its run has put it back under review.
ModeratedCatalogue ==
    {[c EXCEPT ![2] = [@ EXCEPT !.uploadStatus = st[1], !.moderationStatus = st[2]]] :
        c \in RecCatalogue \ {<<>>},
        st \in {<<"Published", "auto_approved">>, <<"Flagged", "rejected">>,
                <<"Under Review", "requires_review">>}}

\* The catalogue after a decision, with no cache row or with the row a call
\* at time 0 stored before the decision, naming both videos.
InitRecsModerated ==
    /\ now = 0
    /\ InitLibIdle
    /\ OPENAI_API_KEY = FALSE
    /\ videos \in ModeratedCatalogue
    /\ posts = <<>>
    /\ moderationQueue = <<>>
    /\ auditLog = <<>>
    /\ tasks = [item \in AllItems |-> IdleTask]
    /\ resolve = IdleResolve
    /\ resolveCalls = 0
    /\ InitTrendingIdle
    /\ userRecommendations \in
        {<<>>} \cup {<<[userId |-> u, elementCategory |-> e,
                        recommendedContentIds |-> <<1, 2>>, expiresAt |-> CacheHours]>> :
                        u \in RecUsers, e \in RecCategories}
    /\ viewSessions = <<>>
    /\ recCalls = [c \in RecSlots |-> IdleCall]
    /\ recHistory = [k \in RecUsers \X RecCategories |-> IdleCall.prev]

SpecRecsModerated == InitRecsModerated /\ [][NextRecs]_vars

\* -------------------------------------------------------- cost monitor

MaxRecords == 2         \* CostMonitor.record calls

\* OPENAI_BUDGET_LIMIT_USD, in cents: "0", "0.02".
BudgetLimits == {0, 2}

\* estimatedCost of a recorded call, in cents.
CostSamples == {1, 9}

\* OPENAI_BUDGET_WINDOW_HOURS when not set.
BudgetWindowHours == 24

RECURSIVE SumCosts(_)
SumCosts(records) ==
    IF records = <<>> THEN 0
    ELSE records[1].estimatedCost + SumCosts(Tail(records))

RecordsSinceExclusive(records, cutoff) == SelectSeq(records, LAMBDA r : r.timestamp > cutoff)

\* records.filter(r => r.timestamp >= cutoff)
RecordsSince(records, cutoff) == SelectSeq(records, LAMBDA r : r.timestamp >= cutoff)

getCurrentSpend == SumCosts(RecordsSince(costMonitor.records, now - BudgetWindowHours))

shouldBlock == getCurrentSpend >= costMonitor.budgetLimitUSD

\* return this.getCurrentSpend() >= this.budgetLimitUSD * 0.9
isOverBudget == getCurrentSpend * 10 >= costMonitor.budgetLimitUSD * 9

\* pruneOldRecords: the cutoff is two windows back.
pruneOldRecords(records) == RecordsSince(records, now - BudgetWindowHours * 2)

\* costMonitor.record(...): push the record, then pruneOldRecords. The field
\* recorded keeps every record ever pushed, for the properties.
RecordCost ==
    /\ Len(costMonitor.recorded) < MaxRecords
    /\ \E c \in CostSamples :
        costMonitor' = [costMonitor EXCEPT
            !.records = pruneOldRecords(Append(@, [timestamp |-> now, estimatedCost |-> c])),
            !.recorded = Append(@, [timestamp |-> now, estimatedCost |-> c])]
    /\ UNCHANGED <<ranking, batcher>>
    /\ modIdle /\ trendIdle /\ recIdle /\ feedIdle /\ serviceIdle /\ queueIdle /\ storeIdle

InitLimits ==
    /\ InitRecsIdle
    /\ InitTrendingIdle
    /\ InitModeration
    /\ costMonitor \in [budgetLimitUSD : BudgetLimits, records : {<<>>}, recorded : {<<>>}]
    /\ ranking = [items |-> <<>>, output |-> <<>>, called |-> FALSE]
    /\ batcher = <<>>
    /\ InitFeedIdle

NextLimits ==
    \/ UploadVideo
    \/ CreateElementPost
    \/ \E item \in AllItems : Analyze(item)
    \/ \E item \in AllItems : InsertQueueEntry(item)
    \/ \E item \in AllItems : UpdateContent(item)
    \/ \E item \in AllItems : InsertAudit(item)
    \/ RecordCost
    \/ AdvanceClock

SpecLimits == InitLimits /\ [][NextLimits]_vars

\* Times the budget is looked at, in hours: within one window of the first
\* records, within two, and past two.
BudgetClockValues == {0, 24, 25, 48, 49, 73}

\* OPENAI_BUDGET_LIMIT_USD, in cents: "0", "0.02", "0.1".
MonitoredLimits == BudgetLimits \cup {10}

\* Date.now() moves on between two uses of the monitor.
BudgetClockAdvance ==
    /\ \E t \in BudgetClockValues : t > now /\ now' = t
    /\ UNCHANGED <<userRecommendations, viewSessions, recCalls, recHistory>>
    /\ modIdle /\ trendIdle /\ libIdle

InitCost ==
    /\ InitRecsIdle
    /\ InitTrendingIdle
    /\ InitModeration
    /\ costMonitor \in [budgetLimitUSD : MonitoredLimits, records : {<<>>}, recorded : {<<>>}]
    /\ ranking = [items |-> <<>>, output |-> <<>>, called |-> FALSE]
    /\ batcher = <<>>
    /\ InitFeedIdle

NextCost ==
    \/ RecordCost
    \/ BudgetClockAdvance

SpecCost == InitCost /\ [][NextCost]_vars

\* ------------------------------------------------------ ranking engine

MaxItems == 3           \* items in a list handed to applyPositivityRanking

\* positivityScore of a feed item: null, and values at and around each threshold.
ScoreSamples == {NoScore, 0, 29, 30, 49, 50, 89, 90, 100}

\* new Date(createdAt).getTime() of a feed item.
CreatedAtSamples == {1, 2}

FeedItems == [positivityScore : ScoreSamples, createdAt : CreatedAtSamples]

getVisibilityTierExclusive(positivityScore) ==
    IF positivityScore = NoScore THEN "standard"
    ELSE IF positivityScore >= 90 THEN "featured"
    ELSE IF positivityScore >= 50 THEN "standard"
    ELSE IF positivityScore > 30 THEN "reduced"
    ELSE "suppressed"

getVisibilityTier(positivityScore) ==
    IF positivityScore = NoScore THEN "standard"
    ELSE IF positivityScore >= 90 THEN "featured"
    ELSE IF positivityScore >= 50 THEN "standard"
    ELSE IF positivityScore >= 30 THEN "reduced"
    ELSE "suppressed"

tierOrder(tier) ==
    CASE tier = "featured" -> 0
      [] tier = "standard" -> 1
      [] tier = "reduced" -> 2
      [] tier = "suppressed" -> 3

compareOldestFirst(a, b) ==
    IF tierOrder(getVisibilityTier(a.positivityScore)) # tierOrder(getVisibilityTier(b.positivityScore))
        THEN tierOrder(getVisibilityTier(a.positivityScore)) - tierOrder(getVisibilityTier(b.positivityScore))
        ELSE a.createdAt - b.createdAt

\* The comparator handed to sort: negative when a goes before b.
compare(a, b) ==
    IF tierOrder(getVisibilityTier(a.positivityScore)) # tierOrder(getVisibilityTier(b.positivityScore))
        THEN tierOrder(getVisibilityTier(a.positivityScore)) - tierOrder(getVisibilityTier(b.positivityScore))
        ELSE b.createdAt - a.createdAt

\* items.filter(...).sort(...): the result as the sequence of the positions the
\* kept items have in items. Array.prototype.sort is stable: items that
\* compare equal keep their order.
applyPositivityRanking(items) ==
    LET kept == {i \in 1..Len(items) : getVisibilityTier(items[i].positivityScore) # "suppressed"}
        before(a, b) == \/ compare(items[a], items[b]) < 0
                        \/ (compare(items[a], items[b]) = 0 /\ a < b)
        rank(a) == Cardinality({b \in kept : before(b, a)})
    IN [k \in 1..Cardinality(kept) |-> CHOOSE a \in kept : rank(a) = k - 1]

\* applyPositivityRanking(items) is called and returns.
ApplyRanking ==
    /\ ~ranking.called
    /\ ranking' = [ranking EXCEPT !.output = applyPositivityRanking(ranking.items),
                                  !.called = TRUE]
    /\ UNCHANGED <<costMonitor, batcher>>
    /\ modIdle /\ trendIdle /\ recIdle /\ feedIdle /\ serviceIdle /\ queueIdle /\ storeIdle

InitRanking ==
    /\ InitRecsIdle
    /\ InitTrendingIdle
    /\ InitModeration
    /\ costMonitor = [budgetLimitUSD |-> DefaultBudgetLimit, records |-> <<>>, recorded |-> <<>>]
    /\ batcher = <<>>
    /\ \E n \in 0..MaxItems :
        ranking \in [items : [1..n -> FeedItems], output : {<<>>}, called : {FALSE}]
    /\ InitFeedIdle

NextRanking == ApplyRanking

SpecRanking == InitRanking /\ [][NextRanking]_vars

\* ---------------------------------------------------- analysis batcher

MaxJobs == 4            \* jobs enqueued in the batcher

\* batchSize handed to createAnalysisBatcher.
BatchSizes == {1, 2}

JobIds == 1..MaxJobs

\* A batcher as constructed: empty queue, no timer. enqueued counts the jobs
\* so far (a job is named by its number), calls are the calls of the processor
\* in the order they were made, jobs the state of each job's promise.
NewBatcher(batchSize) ==
    [batchSize |-> batchSize, queue |-> <<>>, flushTimer |-> FALSE, enqueued |-> 0,
     calls |-> <<>>, jobs |-> [j \in JobIds |-> [promise |-> "none", error |-> 0]]]

batchReachedLate(length, batchSize) == length > batchSize

\* this.queue.length >= this.batchSize
batchReached(length, batchSize) == length >= batchSize

\* flush(): clear the timer; with an empty queue return; else splice the first
\* batchSize jobs off the queue and call the processor with them.
flush(b) ==
    IF b.queue = <<>> THEN [b EXCEPT !.flushTimer = FALSE]
    ELSE LET n == Min(Max(b.batchSize, 0), Len(b.queue))
         IN [b EXCEPT !.flushTimer = FALSE,
                      !.queue = SubSeq(b.queue, n + 1, Len(b.queue)),
                      !.calls = Append(@, [batch |-> SubSeq(b.queue, 1, n), status |-> "running"])]

\* enqueue(payload): push the job; flush when the batch size is reached, else
\* arm the timer unless one is armed.
Enqueue ==
    /\ batcher.enqueued < MaxJobs
    /\ LET j == batcher.enqueued + 1
           pushed == [batcher EXCEPT !.queue = Append(@, j), !.enqueued = j,
                                     !.jobs[j].promise = "pending"]
       IN batcher' = IF batchReached(Len(pushed.queue), pushed.batchSize)
                        THEN flush(pushed)
                        ELSE [pushed EXCEPT !.flushTimer = TRUE]
    /\ UNCHANGED <<costMonitor, ranking>>
    /\ modIdle /\ trendIdle /\ recIdle /\ feedIdle /\ serviceIdle /\ queueIdle /\ storeIdle

\* The timeout armed by enqueue fires: flush().
FlushTimerFires ==
    /\ batcher.flushTimer
    /\ batcher' = flush(batcher)
    /\ UNCHANGED <<costMonitor, ranking>>
    /\ modIdle /\ trendIdle /\ recIdle /\ feedIdle /\ serviceIdle /\ queueIdle /\ storeIdle

RunningCalls == {c \in 1..Len(batcher.calls) : batcher.calls[c].status = "running"}

\* The processor settles a job of its batch: job.resolve(result).
ProcessorResolves(c) ==
    /\ c \in RunningCalls
    /\ \E k \in 1..Len(batcher.calls[c].batch) :
        LET j == batcher.calls[c].batch[k]
        IN /\ batcher.jobs[j].promise = "pending"
           /\ batcher' = [batcher EXCEPT !.jobs[j].promise = "resolved"]
    /\ UNCHANGED <<costMonitor, ranking>>
    /\ modIdle /\ trendIdle /\ recIdle /\ feedIdle /\ serviceIdle /\ queueIdle /\ storeIdle

\* The promise of the processor is fulfilled.
ProcessorReturns(c) ==
    /\ c \in RunningCalls
    /\ batcher' = [batcher EXCEPT !.calls[c].status = "returned"]
    /\ UNCHANGED <<costMonitor, ranking>>
    /\ modIdle /\ trendIdle /\ recIdle /\ feedIdle /\ serviceIdle /\ queueIdle /\ storeIdle

\* The processor throws or its promise is rejected: catch calls job.reject(error)
\* for every job of the batch. Rejecting a settled promise does nothing.
ProcessorFails(c) ==
    /\ c \in RunningCalls
    /\ batcher' = [batcher EXCEPT
            !.calls[c].status = "failed",
            !.jobs = [j \in JobIds |->
                        IF /\ \E k \in 1..Len(batcher.calls[c].batch) : batcher.calls[c].batch[k] = j
                           /\ batcher.jobs[j].promise = "pending"
                            THEN [promise |-> "rejected", error |-> c]
                            ELSE batcher.jobs[j]]]
    /\ UNCHANGED <<costMonitor, ranking>>
    /\ modIdle /\ trendIdle /\ recIdle /\ feedIdle /\ serviceIdle /\ queueIdle /\ storeIdle

InitBatcher ==
    /\ InitRecsIdle
    /\ InitTrendingIdle
    /\ InitModeration
    /\ costMonitor = [budgetLimitUSD |-> DefaultBudgetLimit, records |-> <<>>, recorded |-> <<>>]
    /\ ranking = [items |-> <<>>, output |-> <<>>, called |-> FALSE]
    /\ batcher \in {NewBatcher(n) : n \in BatchSizes}
    /\ InitFeedIdle

NextBatcher ==
    \/ Enqueue
    \/ FlushTimerFires
    \/ \E c \in 1..MaxJobs : ProcessorResolves(c)
    \/ \E c \in 1..MaxJobs : ProcessorReturns(c)
    \/ \E c \in 1..MaxJobs : ProcessorFails(c)

\* A timeout that is armed fires.
SpecBatcher == InitBatcher /\ [][NextBatcher]_vars /\ WF_vars(FlushTimerFires)

\* -------------------------------------------------------- feed service

MaxFeedCalls == 1       \* feed reads in flight at once
MaxFeedWindows == 1     \* cache lifetimes that elapse

\* const CACHE_TTL = 5 * 60 * 1000, in minutes.
CACHE_TTL == 5

\* limit = 20 of getVideosByElement, getPostsByElement and getFeedByElement.
FeedLimit == 20

\* limit = 10 of getTrendingByElement.
TrendingLimit == 10

\* The category read; with it, the limit and the offset fixed each function has one key.
FeedCategory == "Water"

FeedKeys == {"videos", "feed", "trending"}

FeedSlots == 1..MaxFeedCalls

\* No entry under a key.
NoEntry == [present |-> FALSE, data |-> <<>>, expiresAt |-> 0]

IdleFeedCall ==
    [pc |-> "idle", fn |-> NULL, vpc |-> "none", ppc |-> "none", videoItems |-> <<>>,
     postItems |-> <<>>, trendingResults |-> <<>>, k |-> 0, items |-> <<>>, result |-> <<>>,
     startedClears |-> 0]

\* getCached finds an entry that has not expired.
getCached(key) == feedCache[key].present /\ feedCache[key].expiresAt > feedClock

\* The cache after getCached(key): an entry that is absent or expired is deleted.
afterGetCached(cache, key) ==
    IF cache[key].present /\ cache[key].expiresAt > feedClock
        THEN cache ELSE [cache EXCEPT ![key] = NoEntry]

setCache(cache, key, data) ==
    [cache EXCEPT ![key] = [present |-> TRUE, data |-> data, expiresAt |-> feedClock + CACHE_TTL]]

\* SELECT ... FROM videos WHERE elementCategory AND uploadStatus = 'Published'
\* ORDER BY createdAt DESC LIMIT limit.
selectPublishedVideos ==
    LET S == {i \in Ids(videos) : /\ videos[i].elementCategory = FeedCategory
                                  /\ videos[i].uploadStatus = "Published"}
        top == TopBy([i \in S |-> videos[i].createdAt], FeedLimit)
    IN [k \in 1..Len(top) |-> <<"video", top[k]>>]

\* The same query on posts.
selectPublishedPosts ==
    LET S == {i \in Ids(posts) : /\ posts[i].elementCategory = FeedCategory
                                 /\ posts[i].uploadStatus = "Published"}
        top == TopBy([i \in S |-> posts[i].createdAt], FeedLimit)
    IN [k \in 1..Len(top) |-> <<"post", top[k]>>]

\* [...videoItems, ...postItems].sort(by createdAt descending).slice(0, limit)
combineFeed(videoItems, postItems) ==
    LET all == videoItems \o postItems
        createdAt(item) == IF item[1] = "video" THEN videos[item[2]].createdAt
                                                ELSE posts[item[2]].createdAt
        top == TopBy([k \in 1..Len(all) |-> createdAt(all[k])], FeedLimit)
    IN [k \in 1..Len(top) |-> all[top[k]]]

\* SELECT ... FROM content_trending WHERE elementCategory ORDER BY trendingScore
\* DESC LIMIT limit: the row ids.
selectTrending ==
    LET S == {t \in Ids(contentTrending) : contentTrending[t].elementCategory = FeedCategory}
    IN TopBy([t \in S |-> contentTrending[t].trendingScore], TrendingLimit)

\* A slot is free for a new read; slots are taken in order.
FreeSlot(c) ==
    /\ feedCalls[c].pc \in {"idle", "done"}
    /\ \A d \in FeedSlots : d < c => feedCalls[d].pc # "idle"

NewFeedCall(fn) ==
    [IdleFeedCall EXCEPT !.pc = "running", !.fn = fn, !.startedClears = feedClears]

ReturnCached(call, key) ==
    [call EXCEPT !.pc = "done", !.result = feedCache[key].data]

\* getVideosByElement up to its await: the cached list, or the query is sent.
GetVideosByElement(c) ==
    /\ FreeSlot(c)
    /\ feedCalls' = [feedCalls EXCEPT ![c] =
            IF getCached("videos") THEN ReturnCached(NewFeedCall("videos"), "videos")
            ELSE [NewFeedCall("videos") EXCEPT !.vpc = "select"]]
    /\ feedCache' = afterGetCached(feedCache, "videos")
    /\ UNCHANGED <<feedClock, feedClears, costMonitor, ranking, batcher>>
    /\ modIdle /\ trendIdle /\ recIdle /\ serviceIdle /\ queueIdle /\ storeIdle

\* getFeedByElement up to its await: the cached list, or both inner calls are
\* made; getVideosByElement answers from its own key when it can.
GetFeedByElement(c) ==
    /\ FreeSlot(c)
    /\ IF getCached("feed")
        THEN /\ feedCalls' = [feedCalls EXCEPT ![c] = ReturnCached(NewFeedCall("feed"), "feed")]
             /\ feedCache' = feedCache
        ELSE /\ feedCalls' = [feedCalls EXCEPT ![c] =
                    IF getCached("videos")
                        THEN [NewFeedCall("feed") EXCEPT
                                !.vpc = "done", !.ppc = "select",
                                !.videoItems = feedCache["videos"].data]
                        ELSE [NewFeedCall("feed") EXCEPT !.vpc = "select", !.ppc = "select"]]
             /\ feedCache' = afterGetCached(afterGetCached(feedCache, "feed"), "videos")
    /\ UNCHANGED <<feedClock, feedClears, costMonitor, ranking, batcher>>
    /\ modIdle /\ trendIdle /\ recIdle /\ serviceIdle /\ queueIdle /\ storeIdle

\* getTrendingByElement up to its first await.
GetTrendingByElement(c) ==
    /\ FreeSlot(c)
    /\ feedCalls' = [feedCalls EXCEPT ![c] =
            IF getCached("trending") THEN ReturnCached(NewFeedCall("trending"), "trending")
            ELSE [NewFeedCall("trending") EXCEPT !.pc = "select"]]
    /\ feedCache' = afterGetCached(feedCache, "trending")
    /\ UNCHANGED <<feedClock, feedClears, costMonitor, ranking, batcher>>
    /\ modIdle /\ trendIdle /\ recIdle /\ serviceIdle /\ queueIdle /\ storeIdle

\* The database runs the query of getVideosByElement.
FeedSelectVideos(c) ==
    /\ feedCalls[c].vpc = "select"
    /\ feedCalls' = [feedCalls EXCEPT ![c] =
            [@ EXCEPT !.vpc = "store", !.videoItems = selectPublishedVideos]]
    /\ UNCHANGED <<feedCache, feedClock, feedClears, costMonitor, ranking, batcher>>
    /\ modIdle /\ trendIdle /\ recIdle /\ serviceIdle /\ queueIdle /\ storeIdle

\* getVideosByElement resumes: setCache(cacheKey, items) and return.
FeedStoreVideos(c) ==
    /\ feedCalls[c].vpc = "store"
    /\ feedCache' = setCache(feedCache, "videos", feedCalls[c].videoItems)
    /\ feedCalls' = [feedCalls EXCEPT ![c] =
            IF @.fn = "videos"
                THEN [@ EXCEPT !.vpc = "done", !.pc = "done", !.result = feedCalls[c].videoItems]
                ELSE [@ EXCEPT !.vpc = "done"]]
    /\ UNCHANGED <<feedClock, feedClears, costMonitor, ranking, batcher>>
    /\ modIdle /\ trendIdle /\ recIdle /\ serviceIdle /\ queueIdle /\ storeIdle

\* The database runs the query of getPostsByElement.
FeedSelectPosts(c) ==
    /\ feedCalls[c].ppc = "select"
    /\ feedCalls' = [feedCalls EXCEPT ![c] =
            [@ EXCEPT !.ppc = "done", !.postItems = selectPublishedPosts]]
    /\ UNCHANGED <<feedCache, feedClock, feedClears, costMonitor, ranking, batcher>>
    /\ modIdle /\ trendIdle /\ recIdle /\ serviceIdle /\ queueIdle /\ storeIdle

\* getFeedByElement resumes after Promise.all: merge, setCache, return.
FeedCombine(c) ==
    /\ feedCalls[c].fn = "feed"
    /\ feedCalls[c].pc = "running"
    /\ feedCalls[c].vpc = "done"
    /\ feedCalls[c].ppc = "done"
    /\ LET combined == combineFeed(feedCalls[c].videoItems, feedCalls[c].postItems)
       IN /\ feedCache' = setCache(feedCache, "feed", combined)
          /\ feedCalls' = [feedCalls EXCEPT ![c] = [@ EXCEPT !.pc = "done", !.result = combined]]
    /\ UNCHANGED <<feedClock, feedClears, costMonitor, ranking, batcher>>
    /\ modIdle /\ trendIdle /\ recIdle /\ serviceIdle /\ queueIdle /\ storeIdle

\* The database runs the query on content_trending.
FeedSelectTrending(c) ==
    /\ feedCalls[c].pc = "select"
    /\ feedCalls' = [feedCalls EXCEPT ![c] =
            [@ EXCEPT !.pc = "join", !.trendingResults = selectTrending, !.k = 1]]
    /\ UNCHANGED <<feedCache, feedClock, feedClears, costMonitor, ranking, batcher>>
    /\ modIdle /\ trendIdle /\ recIdle /\ serviceIdle /\ queueIdle /\ storeIdle

\* The loop of getTrendingByElement reads the content row of the next trending
\* record and keeps it when it is Published.
FeedJoinTrending(c) ==
    /\ feedCalls[c].pc = "join"
    /\ feedCalls[c].k <= Len(feedCalls[c].trendingResults)
    /\ LET t == contentTrending[feedCalls[c].trendingResults[feedCalls[c].k]]
           item == <<t.contentType, t.contentId>>
           found == /\ t.contentId \in Ids(TableOf(t.contentType))
                    /\ Row(item).uploadStatus = "Published"
       IN feedCalls' = [feedCalls EXCEPT ![c] =
            [@ EXCEPT !.k = @ + 1,
                      !.items = IF found THEN Append(@, item) ELSE @]]
    /\ UNCHANGED <<feedCache, feedClock, feedClears, costMonitor, ranking, batcher>>
    /\ modIdle /\ trendIdle /\ recIdle /\ serviceIdle /\ queueIdle /\ storeIdle

\* After the loop: setCache(cacheKey, items) and return.
FeedStoreTrending(c) ==
    /\ feedCalls[c].pc = "join"
    /\ feedCalls[c].k > Len(feedCalls[c].trendingResults)
    /\ feedCache' = setCache(feedCache, "trending", feedCalls[c].items)
    /\ feedCalls' = [feedCalls EXCEPT ![c] = [@ EXCEPT !.pc = "done", !.result = feedCalls[c].items]]
    /\ UNCHANGED <<feedClock, feedClears, costMonitor, ranking, batcher>>
    /\ modIdle /\ trendIdle /\ recIdle /\ serviceIdle /\ queueIdle /\ storeIdle

\* The decide route after resolveModeration has returned: feedCache.clear().
InvalidateFeedCache ==
    /\ resolve.pc = "idle"
    /\ feedClears < resolveCalls
    /\ feedCache' = [k \in FeedKeys |-> NoEntry]
    /\ feedClears' = feedClears + 1
    /\ UNCHANGED <<feedCalls, feedClock, costMonitor, ranking, batcher>>
    /\ modIdle /\ trendIdle /\ recIdle /\ serviceIdle /\ queueIdle /\ storeIdle

\* The lifetime of a cache entry goes by.
FeedClockAdvance ==
    /\ feedClock < MaxFeedWindows * CACHE_TTL
    /\ feedClock' = feedClock + CACHE_TTL
    /\ UNCHANGED <<feedCache, feedCalls, feedClears, costMonitor, ranking, batcher>>
    /\ modIdle /\ trendIdle /\ recIdle /\ serviceIdle /\ queueIdle /\ storeIdle

\* The trending records a completed calculateTrendingScores run leaves for the
\* content of the tables.
TrendingRowsOfContent ==
    [i \in 1..(Len(videos) + Len(posts)) |->
        IF i <= Len(videos)
            THEN [contentId |-> i, contentType |-> "video",
                  elementCategory |-> videos[i].elementCategory,
                  trendingScore |-> trendingScore(videos[i].viewCount,
                                        videoEngagement(videos[i].viewCount), videos[i].positivityScore),
                  viewCount24h |-> videos[i].viewCount,
                  engagementCount24h |-> videoEngagement(videos[i].viewCount)]
            ELSE LET q == posts[i - Len(videos)]
                 IN [contentId |-> i - Len(videos), contentType |-> "post",
                     elementCategory |-> q.elementCategory,
                     trendingScore |-> trendingScore(q.viewCount, q.engagementScore, q.positivityScore),
                     viewCount24h |-> q.viewCount,
                     engagementCount24h |-> q.engagementScore]]

\* One published video and one published post with their trending records,
\* an empty cache.
InitFeed ==
    /\ InitRecsIdle
    /\ OPENAI_API_KEY = FALSE
    /\ videos \in {<<v>> : v \in PublishedVideoRows}
    /\ posts \in {<<q>> : q \in PublishedPostRows}
    /\ moderationQueue = <<>>
    /\ auditLog = <<>>
    /\ tasks = [item \in AllItems |-> IdleTask]
    /\ resolve = IdleResolve
    /\ resolveCalls = 0
    /\ contentTrending = TrendingRowsOfContent
    /\ trendRuns = <<>>
    /\ timers = [startup |-> FALSE, ticks |-> 0]
    /\ trendBaseline = [valid |-> FALSE, rows |-> <<>>]
    /\ costMonitor = [budgetLimitUSD |-> DefaultBudgetLimit, records |-> <<>>, recorded |-> <<>>]
    /\ ranking = [items |-> <<>>, output |-> <<>>, called |-> FALSE]
    /\ batcher = <<>>
    /\ service = <<>>
    /\ queueRead = <<>>
    /\ store = <<>>
    /\ feedCache = [k \in FeedKeys |-> NoEntry]
    /\ feedCalls = [c \in FeedSlots |-> IdleFeedCall]
    /\ feedClock = 0
    /\ feedClears = 0

NextFeed ==
    \/ \E c \in FeedSlots : GetVideosByElement(c)
    \/ \E c \in FeedSlots : GetFeedByElement(c)
    \/ \E c \in FeedSlots : GetTrendingByElement(c)
    \/ \E c \in FeedSlots : FeedSelectVideos(c)
    \/ \E c \in FeedSlots : FeedStoreVideos(c)
    \/ \E c \in FeedSlots : FeedSelectPosts(c)
    \/ \E c \in FeedSlots : FeedCombine(c)
    \/ \E c \in FeedSlots : FeedSelectTrending(c)
    \/ \E c \in FeedSlots : FeedJoinTrending(c)
    \/ \E c \in FeedSlots : FeedStoreTrending(c)
    \/ ResolveUpdate
    \/ ResolveQueue
    \/ ResolveAudit
    \/ InvalidateFeedCache
    \/ FeedClockAdvance

SpecFeed == InitFeed /\ [][NextFeed]_vars

\* ------------------------------------------------------ analysis services

\* A service is called with the key setting and one of the sample texts.
NewService(key, text) ==
    [key |-> key, text |-> text, fn |-> "none", response |-> NULL, result |-> NULL]

\* analyzeVideoElement / analyzeTextElement is called and returns.
AnalyzeElement ==
    /\ \E resp \in ClassifierResponses :
        \E result \in analyzeElement(service.key, SampleTexts[service.text], resp) :
            service' = [service EXCEPT !.fn = "analyzeElement",
                                       !.response = IF service.key THEN resp ELSE NULL,
                                       !.result = result]
    /\ UNCHANGED <<costMonitor, ranking, batcher>>
    /\ modIdle /\ trendIdle /\ recIdle /\ feedIdle /\ queueIdle /\ storeIdle

\* analyzePositivity is called and returns.
AnalyzePositivity ==
    /\ \E resp \in PositivityResponses :
        service' = [service EXCEPT
            !.fn = "analyzePositivity",
            !.response = IF service.key THEN resp ELSE NULL,
            !.result = [score |-> analyzePositivity(service.key, SampleTexts[service.text], resp)]]
    /\ UNCHANGED <<costMonitor, ranking, batcher>>
    /\ modIdle /\ trendIdle /\ recIdle /\ feedIdle /\ queueIdle /\ storeIdle

\* checkContentSafety is called and returns.
CheckContentSafety ==
    /\ \E resp \in SafetyResponses :
        service' = [service EXCEPT !.fn = "checkContentSafety",
                                   !.response = IF service.key THEN resp ELSE NULL,
                                   !.result = checkContentSafety(service.key, resp)]
    /\ UNCHANGED <<costMonitor, ranking, batcher>>
    /\ modIdle /\ trendIdle /\ recIdle /\ feedIdle /\ queueIdle /\ storeIdle

InitServices ==
    /\ InitRecsIdle
    /\ InitTrendingIdle
    /\ InitModeration
    /\ costMonitor = [budgetLimitUSD |-> DefaultBudgetLimit, records |-> <<>>, recorded |-> <<>>]
    /\ ranking = [items |-> <<>>, output |-> <<>>, called |-> FALSE]
    /\ batcher = <<>>
    /\ feedCache = <<>>
    /\ feedCalls = <<>>
    /\ feedClock = 0
    /\ feedClears = 0
    /\ queueRead = <<>>
    /\ store = <<>>
    /\ service \in {NewService(key, text) : key \in BOOLEAN, text \in 1..Len(SampleTexts)}
    /\ service.key = OPENAI_API_KEY

NextServices ==
    \/ AnalyzeElement
    \/ AnalyzePositivity
    \/ CheckContentSafety

SpecServices == InitServices /\ [][NextServices]_vars

\* The pipeline without external service, over the submitted texts: every
\* item submitted has the text service.text as its title or content.
InitFallback ==
    /\ InitRecsIdle
    /\ InitTrendingIdle
    /\ InitModeration
    /\ OPENAI_API_KEY = FALSE
    /\ costMonitor = [budgetLimitUSD |-> DefaultBudgetLimit, records |-> <<>>, recorded |-> <<>>]
    /\ ranking = [items |-> <<>>, output |-> <<>>, called |-> FALSE]
    /\ batcher = <<>>
    /\ feedCache = <<>>
    /\ feedCalls = <<>>
    /\ feedClock = 0
    /\ feedClears = 0
    /\ queueRead = <<>>
    /\ store = <<>>
    /\ service \in {NewService(FALSE, text) : text \in 1..Len(SampleTexts)}

NextFallback ==
    \/ UploadVideo
    \/ CreateElementPost
    \/ \E item \in AllItems : AnalyzeSubmitted(item)
    \/ \E item \in AllItems : InsertQueueEntry(item)
    \/ \E item \in AllItems : UpdateContent(item)
    \/ \E item \in AllItems : InsertAudit(item)
    \/ \E item \in AllItems : Throw(item)
    \/ \E item \in AllItems : CatchUpdate(item)
    \/ \E item \in AllItems : CatchQueue(item)

SpecFallback == InitFallback /\ [][NextFallback]_vars

\* ------------------------------------------------- moderation queue read

MaxQueueRows == 3       \* rows of moderation_queue when it is read

\* Priorities the column admits (ModerationPriority); the pipeline writes the
\* first three.
QueuePriorities == {"urgent", "high", "normal", "low"}

\* Rows of moderation_queue: as the pipeline inserted them at some time, some
\* resolved since.
QueueRows ==
    {[errorQueueEntry(<<"video", 1>>) EXCEPT !.priority = p, !.status = st, !.createdAt = t] :
        p \in QueuePriorities, st \in {"pending", "resolved"}, t \in {1, 2}}

\* The status parameter of the request: absent, or a status.
StatusParameters == {NULL, "pending", "resolved"}

priorityRankReversed(priority) ==
    IF priority = "urgent" THEN 4
    ELSE IF priority = "high" THEN 3
    ELSE IF priority = "normal" THEN 2
    ELSE 1

\* CASE priority WHEN 'urgent' THEN 1 WHEN 'high' THEN 2 WHEN 'normal' THEN 3
\* WHEN 'low' THEN 4 END
priorityRank(priority) ==
    IF priority = "urgent" THEN 1
    ELSE IF priority = "high" THEN 2
    ELSE IF priority = "normal" THEN 3
    ELSE 4

\* The responses of GET /api/moderation/queue: the rows whose status is the
\* filter, in an order that follows ORDER BY; the database orders rows equal in
\* priority and createdAt as it likes.
getModerationQueue(status) ==
    LET statusFilter == IF status = NULL THEN "pending" ELSE status
        S == {q \in Ids(moderationQueue) : moderationQueue[q].status = statusFilter}
        n == Cardinality(S)
        inOrder(a, b) ==
            \/ priorityRank(moderationQueue[a].priority) < priorityRank(moderationQueue[b].priority)
            \/ /\ priorityRank(moderationQueue[a].priority) = priorityRank(moderationQueue[b].priority)
               /\ moderationQueue[a].createdAt >= moderationQueue[b].createdAt
    IN {r \in [1..n -> S] :
            /\ \A i, j \in 1..n : i # j => r[i] # r[j]
            /\ \A i, j \in 1..n : i < j => inOrder(r[i], r[j])}

GetModerationQueue ==
    /\ \E status \in StatusParameters :
        \E result \in getModerationQueue(status) :
            queueRead' = [called |-> TRUE, status |-> status, result |-> result]
    /\ UNCHANGED <<costMonitor, ranking, batcher, service>>
    /\ modIdle /\ trendIdle /\ recIdle /\ feedIdle /\ storeIdle

InitQueue ==
    /\ InitRecsIdle
    /\ InitTrendingIdle
    /\ OPENAI_API_KEY \in BOOLEAN
    /\ videos = <<>>
    /\ posts = <<>>
    /\ \E n \in 0..MaxQueueRows : moderationQueue \in [1..n -> QueueRows]
    /\ auditLog = <<>>
    /\ tasks = [item \in AllItems |-> IdleTask]
    /\ resolve = IdleResolve
    /\ resolveCalls = 0
    /\ costMonitor = [budgetLimitUSD |-> DefaultBudgetLimit, records |-> <<>>, recorded |-> <<>>]
    /\ ranking = [items |-> <<>>, output |-> <<>>, called |-> FALSE]
    /\ batcher = <<>>
    /\ service = <<>>
    /\ feedCache = <<>>
    /\ feedCalls = <<>>
    /\ feedClock = 0
    /\ feedClears = 0
    /\ queueRead = [called |-> FALSE, status |-> NULL, result |-> <<>>]
    /\ store = <<>>

NextQueue == GetModerationQueue

SpecQueue == InitQueue /\ [][NextQueue]_vars

\* ---------------------------------------------------------- rate limiter
\* Time of the store's clock in units of ten seconds.

MaxHits == 7            \* requests that reach a limiter

\* windowMs of the three pre-configured limiters: 60_000.
WindowTicks == 6

\* uploadRateLimit, apiRateLimit, authRateLimit.
Limiters ==
    [upload |-> [windowMs |-> WindowTicks, max |-> 5],
     api |-> [windowMs |-> WindowTicks, max |-> 60],
     auth |-> [windowMs |-> WindowTicks, max |-> 10]]

\* req.ip of the requests.
Ips == {"ip1"}

\* Date.now() at the requests: the start, late in the first counting period,
\* and just after its end.
RateClockValues == {0, 5, 7}

\* No entry under the key.
NoWindow == [count |-> 0, resetAt |-> -1]

\* RateLimitStore.hit: the entry of the key after the call.
hit(entry, windowMs, clock) ==
    IF entry = NoWindow \/ clock > entry.resetAt
        THEN [count |-> 1, resetAt |-> clock + windowMs]
        ELSE [entry EXCEPT !.count = @ + 1]

\* A request reaches the middleware rateLimit(opts) returns: the key is the
\* request's IP, the entry is the shared store's, and next() is called unless
\* count > max. The field own keeps what a store of the limiter's own would
\* hold, passed the requests let through, last the request just handled.
RateLimit(name) ==
    /\ store.hits < MaxHits
    /\ \E key \in Ips :
        LET opts == Limiters[name]
            entry == hit(store.windows[key], opts.windowMs, store.clock)
            alone == hit(store.own[<<name, key>>], opts.windowMs, store.clock)
            passes == ~(entry.count > opts.max)
        IN store' = [store EXCEPT
                !.windows[key] = entry,
                !.own[<<name, key>>] = alone,
                !.hits = @ + 1,
                !.passed = IF passes
                            THEN Append(@, [limiter |-> name, key |-> key, time |-> store.clock])
                            ELSE @,
                !.last = [limiter |-> name, key |-> key, passes |-> passes,
                          alone |-> ~(alone.count > opts.max)]]
    /\ UNCHANGED <<costMonitor, ranking, batcher, service>>
    /\ modIdle /\ trendIdle /\ recIdle /\ feedIdle /\ queueIdle

\* RateLimitStore.purge, run by the cleanup interval: expired entries go.
Purge ==
    /\ \E key \in Ips : store.windows[key] # NoWindow /\ store.clock > store.windows[key].resetAt
    /\ store' = [store EXCEPT !.windows =
            [key \in Ips |->
                IF store.clock > store.windows[key].resetAt THEN NoWindow ELSE store.windows[key]]]
    /\ UNCHANGED <<costMonitor, ranking, batcher, service>>
    /\ modIdle /\ trendIdle /\ recIdle /\ feedIdle /\ queueIdle

\* Date.now() moves on between two requests.
RateClockAdvance ==
    /\ \E t \in RateClockValues : t > store.clock /\ store' = [store EXCEPT !.clock = t]
    /\ UNCHANGED <<costMonitor, ranking, batcher, service>>
    /\ modIdle /\ trendIdle /\ recIdle /\ feedIdle /\ queueIdle

InitRateLimit ==
    /\ InitRecsIdle
    /\ InitTrendingIdle
    /\ InitModeration
    /\ costMonitor = [budgetLimitUSD |-> DefaultBudgetLimit, records |-> <<>>, recorded |-> <<>>]
    /\ ranking = [items |-> <<>>, output |-> <<>>, called |-> FALSE]
    /\ batcher = <<>>
    /\ service = <<>>
    /\ queueRead = <<>>
    /\ feedCache = <<>>
    /\ feedCalls = <<>>
    /\ feedClock = 0
    /\ feedClears = 0
    /\ store = [windows |-> [key \in Ips |-> NoWindow],
                own |-> [k \in (DOMAIN Limiters) \X Ips |-> NoWindow],
                clock |-> 0, hits |-> 0, passed |-> <<>>,
                last |-> [limiter |-> NULL, key |-> NULL, passes |-> TRUE, alone |-> TRUE]]

NextRateLimit ==
    \/ \E name \in DOMAIN Limiters : RateLimit(name)
    \/ Purge
    \/ RateClockAdvance

SpecRateLimit == InitRateLimit /\ [][NextRateLimit]_vars

\* ================================================================ claims

RowNext(item) == IF item[1] = "video" THEN videos'[item[2]] ELSE posts'[item[2]]

QueueEntriesOf(item) ==
    {q \in Ids(moderationQueue) :
        /\ moderationQueue[q].contentId = item[2]
        /\ moderationQueue[q].contentType = item[1]}

StatusPairs ==
    {<<"auto_approved", "Published">>, <<"rejected", "Flagged">>, <<"requires_review", "Under Review">>}

PolicyDecision(type, isSafe, riskLevel, confidence) ==
    CASE ~isSafe /\ riskLevel = "high" -> "rejected"
      [] ~isSafe /\ riskLevel # "high" -> "requires_review"
      [] isSafe /\ type = "video" /\ confidence < 5 -> "requires_review"
      [] OTHER -> "auto_approved"

\* C2: the UPDATE of a run that met no exception writes, and the run returns,
\* the moderation status the policy prescribes for its safety assessment,
\* confidence and content type; a post is never sent to review for confidence.
DecisionFollowsPolicy ==
    [][\A item \in AllItems :
        LET t == tasks[item]
        IN /\ (t.pc = "update" /\ tasks'[item].pc = "audit") =>
                RowNext(item).moderationStatus =
                    PolicyDecision(item[1], t.safety.isSafe, t.safety.riskLevel, t.analysis.confidence)
           /\ (t.pc = "audit" /\ tasks'[item].pc = "returned") =>
                t.moderationStatus =
                    PolicyDecision(item[1], t.safety.isSafe, t.safety.riskLevel, t.analysis.confidence)]_vars

\* A safe low-confidence video ended in review, a safe low-confidence post approved.
LowConfidenceVideoAndPostDecided ==
    /\ \E i \in Ids(videos) :
        LET t == tasks[<<"video", i>>]
        IN /\ t.pc = "returned"
           /\ t.safety.isSafe
           /\ t.analysis.confidence < 5
           /\ t.moderationStatus = "requires_review"
    /\ \E i \in Ids(posts) :
        LET t == tasks[<<"post", i>>]
        IN /\ t.pc = "returned"
           /\ t.safety.isSafe
           /\ t.analysis.confidence < 5
           /\ t.moderationStatus = "auto_approved"

\* A moderator's resolveModeration has reached the queue rows of this content id.
ModeratorTouched(contentId) ==
    \/ resolve.pc = "audit" /\ resolve.contentId = contentId
    \/ \E a \in Ids(auditLog) :
        /\ auditLog[a].actorId \in ModeratorIds
        /\ auditLog[a].contentId = contentId

\* C3: a run that returned without exception left exactly one queue entry for its
\* item when it decided rejected (urgent) or requires_review (high if unsafe,
\* normal for a low-confidence video), pending until a moderator resolves it,
\* and no queue entry when it decided auto_approved.
OneQueueEntryPerFlaggedDecision ==
    \A item \in AllItems :
        tasks[item].pc = "returned" =>
            LET t == tasks[item]
                es == QueueEntriesOf(item)
            IN IF t.moderationStatus = "auto_approved"
                THEN es = {}
                ELSE /\ Cardinality(es) = 1
                     /\ \A q \in es :
                        /\ moderationQueue[q].priority =
                            (IF t.moderationStatus = "rejected" THEN "urgent"
                             ELSE IF ~t.safety.isSafe THEN "high" ELSE "normal")
                        /\ \/ moderationQueue[q].status = "pending"
                           \/ ModeratorTouched(item[2])

\* A rejected run with its pending urgent entry beside an approved run with none.
UrgentEntryAndNoEntry ==
    /\ \E item \in AllItems :
        /\ tasks[item].pc = "returned"
        /\ tasks[item].moderationStatus = "rejected"
        /\ \E q \in QueueEntriesOf(item) :
            moderationQueue[q].priority = "urgent" /\ moderationQueue[q].status = "pending"
    /\ \E item \in AllItems :
        /\ tasks[item].pc = "returned"
        /\ tasks[item].moderationStatus = "auto_approved"
        /\ QueueEntriesOf(item) = {}

\* C4: when a run ends through catch, its item is requires_review / Under Review
\* and a pending priority-high queue entry naming the failure exists for it,
\* for a video and for a post alike.
FailedRunLeavesReviewEntry ==
    [][\A item \in AllItems :
        (tasks[item].pc # "failed" /\ tasks'[item].pc = "failed") =>
            /\ RowNext(item).moderationStatus = "requires_review"
            /\ RowNext(item).uploadStatus = "Under Review"
            /\ \E q \in Ids(moderationQueue') :
                /\ moderationQueue'[q].contentId = item[2]
                /\ moderationQueue'[q].contentType = item[1]
                /\ moderationQueue'[q].priority = "high"
                /\ moderationQueue'[q].status = "pending"
                /\ moderationQueue'[q].aiFlaggedReason.kind = "processing_error"]_vars

\* C5: a moderation status of auto_approved or rejected is changed by no step
\* other than resolveModeration's UPDATE of that item.
TerminalStatusChangedOnlyByResolve ==
    [][\A item \in AllItems :
        (/\ Exists(item)
         /\ Row(item).moderationStatus \in {"auto_approved", "rejected"}
         /\ RowNext(item).moderationStatus # Row(item).moderationStatus)
        => (/\ resolve.pc = "idle"
            /\ resolve'.pc = "queue"
            /\ resolve'.contentId = item[2]
            /\ resolve'.contentType = item[1])]_vars

\* A step of a resolveModeration call that repeats the previous call.
RepeatedResolveStep ==
    \/ resolve.pc = "idle" /\ resolve'.pc = "queue" /\ resolve'.repeat
    \/ resolve.pc = "queue" /\ resolve'.pc = "audit" /\ resolve.repeat
    \/ resolve.pc = "audit" /\ resolve'.pc = "idle" /\ resolve.repeat

\* C6: no step of a resolveModeration call that repeats the previous call (same
\* content id, type and decision) changes a status, a queue entry or the audit log.
RepeatedResolveIsNoOp ==
    [][RepeatedResolveStep =>
        /\ \A i \in Ids(videos) :
            /\ videos'[i].moderationStatus = videos[i].moderationStatus
            /\ videos'[i].uploadStatus = videos[i].uploadStatus
        /\ \A i \in Ids(posts) :
            /\ posts'[i].moderationStatus = posts[i].moderationStatus
            /\ posts'[i].uploadStatus = posts[i].uploadStatus
        /\ moderationQueue' = moderationQueue
        /\ auditLog' = auditLog]_vars

\* C7: a run of calculateTrendingScores that nothing disturbed (no other run in
\* progress, no view counted) and that follows such a run leaves the trending
\* rows and their scores as that run left them.
RecomputationIsIdempotent ==
    [][\A r \in RunSlots :
        (/\ trendRuns[r].phase # "done"
         /\ trendRuns'[r].phase = "done"
         /\ trendRuns'[r].clean
         /\ trendBaseline.valid)
        => TrendRows(contentTrending') = trendBaseline.rows]_vars

\* C8: content_trending never holds two rows of one (content id, content type).
OneTrendingRecordPerContent ==
    \A a, b \in Ids(contentTrending) :
        (/\ contentTrending[a].contentId = contentTrending[b].contentId
         /\ contentTrending[a].contentType = contentTrending[b].contentType)
        => a = b

\* C9: at most one execution of calculateTrendingScores is in progress.
NoOverlappingRuns == Cardinality(RunningSlots) <= 1

\* C10: a call made after an earlier call for the same user and category
\* returned, before the expiry of that call's cache entry and with the videos
\* unchanged, returns the same set of ids as the earlier call.
SecondCallReturnsSameIds ==
    [][\A c \in RecSlots :
        LET call == recCalls[c]
        IN (/\ call.pc \in {"fetch", "store"}
            /\ recCalls'[c].pc = "idle"
            /\ call.prev.valid
            /\ videos = call.prev.videos
            /\ now < call.prev.expiresAt)
           => recHistory'[<<call.userId, call.elementCategory>>].ids = call.prev.ids]_vars

\* What the thresholds give for a score.
ExpectedTier(p) ==
    IF p = NoScore THEN "standard"
    ELSE IF p >= 90 THEN "featured"
    ELSE IF p >= 50 /\ p <= 89 THEN "standard"
    ELSE IF p >= 30 /\ p <= 49 THEN "reduced"
    ELSE "suppressed"

\* C11: getVisibilityTier gives every score the one tier of the thresholds
\* (absent standard, 90 and more featured, 50 to 89 standard, 30 to 49
\* reduced, below 30 suppressed), and no item of the output of
\* applyPositivityRanking has the tier suppressed.
TiersFollowThresholdsAndSuppressedLeftOut ==
    /\ \A i \in 1..Len(ranking.items) :
        getVisibilityTier(ranking.items[i].positivityScore)
            = ExpectedTier(ranking.items[i].positivityScore)
    /\ ranking.called =>
        \A k \in 1..Len(ranking.output) :
            /\ ranking.output[k] \in 1..Len(ranking.items)
            /\ ExpectedTier(ranking.items[ranking.output[k]].positivityScore) # "suppressed"

\* A ranked list that held a suppressed item, an item at the lowest reduced
\* score and an item without score.
RankedListWithSuppressedItem ==
    /\ ranking.called
    /\ \E i, j, k \in 1..Len(ranking.items) :
        /\ ranking.items[i].positivityScore = 29
        /\ ranking.items[j].positivityScore = 30
        /\ ranking.items[k].positivityScore = NoScore
    /\ Len(ranking.output) = 2

ExpectedTierOrder(p) ==
    IF p = NoScore THEN 1 ELSE IF p >= 90 THEN 0 ELSE IF p >= 50 THEN 1 ELSE 2

\* C12: the output of applyPositivityRanking holds each input item that is not
\* suppressed exactly once and nothing else, featured before standard before
\* reduced, and within one tier the later created first.
RankingKeepsAndOrders ==
    ranking.called =>
        LET items == ranking.items
            out == ranking.output
        IN /\ \A i \in 1..Len(items) :
                Cardinality({k \in 1..Len(out) : out[k] = i})
                    = (IF items[i].positivityScore # NoScore /\ items[i].positivityScore < 30
                         THEN 0 ELSE 1)
           /\ \A k \in 1..Len(out) : out[k] \in 1..Len(items)
           /\ \A k, l \in 1..Len(out) :
                k < l =>
                    \/ ExpectedTierOrder(items[out[k]].positivityScore)
                         < ExpectedTierOrder(items[out[l]].positivityScore)
                    \/ /\ ExpectedTierOrder(items[out[k]].positivityScore)
                            = ExpectedTierOrder(items[out[l]].positivityScore)
                       /\ items[out[k]].createdAt >= items[out[l]].createdAt

\* A ranked list whose input order was reversed: a reduced item, then an
\* older and a newer item of the standard tier.
ReorderedRanking ==
    /\ ranking.called
    /\ Len(ranking.items) = 3
    /\ ranking.items[1].positivityScore = 49
    /\ ranking.items[2] = [positivityScore |-> NoScore, createdAt |-> 1]
    /\ ranking.items[3] = [positivityScore |-> 50, createdAt |-> 2]
    /\ ranking.output = <<3, 2, 1>>

\* C13: the safety check of a run answers safe / none / no flags when no
\* key is configured and unsafe / medium / api_error when the configured
\* service answers with an error status or the call throws; the run of such a
\* failed check neither decides nor writes auto_approved.
SafetyFallbackAsymmetry ==
    [][\A item \in AllItems :
        /\ (tasks[item].pc = "analyze" /\ tasks'[item].pc # "analyze") =>
            /\ ~OPENAI_API_KEY =>
                tasks'[item].safety = [isSafe |-> TRUE, flags |-> {}, riskLevel |-> "none"]
            /\ tasks'[item].safetyKind = "failed" =>
                /\ tasks'[item].safety =
                        [isSafe |-> FALSE, flags |-> {"api_error"}, riskLevel |-> "medium"]
                /\ tasks'[item].moderationStatus # "auto_approved"
        /\ (/\ tasks[item].pc = "update"
            /\ tasks'[item].pc = "audit"
            /\ tasks[item].safetyKind = "failed") =>
                /\ RowNext(item).moderationStatus # "auto_approved"
                /\ RowNext(item).uploadStatus # "Published"]_vars

\* A run whose safety call failed has returned and left its item under review.
FailedSafetyCheckLeftUnderReview ==
    \E item \in AllItems :
        /\ tasks[item].pc = "returned"
        /\ tasks[item].safetyKind = "failed"
        /\ Row(item).moderationStatus = "requires_review"
        /\ Row(item).uploadStatus = "Under Review"

\* C14: once the audit insert of a run has failed, no step of that run changes
\* the moderation status or the publish status its decision persisted, and
\* none adds a queue entry for the item.
AuditFailureChangesNoPrimaryState ==
    [][\A item \in AllItems :
        (tasks[item].threw = "audit" /\ tasks'[item] # tasks[item]) =>
            /\ RowNext(item).moderationStatus = Row(item).moderationStatus
            /\ RowNext(item).uploadStatus = Row(item).uploadStatus
            /\ QueueEntriesOf(item)' = QueueEntriesOf(item)]_vars

\* C15: every run that has ended, by return or through catch, has persisted a
\* moderation status and has left an audit entry of its own for the item, and
\* every completed resolveModeration call has left one for the item it resolved.
EveryDecisionIsAudited ==
    /\ \A item \in AllItems :
        tasks[item].pc \in {"returned", "failed"} =>
            \E a \in Ids(auditLog) :
                /\ auditLog[a].contentId = item[2]
                /\ auditLog[a].contentType = item[1]
                /\ auditLog[a].actorId = tasks[item].actorId
    /\ (resolveCalls > 0 /\ resolve.pc = "idle") =>
            \E a \in Ids(auditLog) :
                /\ auditLog[a].contentId = resolve.contentId
                /\ auditLog[a].contentType = resolve.contentType
                /\ auditLog[a].actorId = resolve.moderatorId

\* A resolveModeration call has written the row of the item.
ResolvedByModerator(item) ==
    \/ resolve.pc # "idle" /\ resolve.contentId = item[2] /\ resolve.contentType = item[1]
    \/ \E a \in Ids(auditLog) :
        /\ auditLog[a].actorId \in ModeratorIds
        /\ auditLog[a].contentId = item[2]
        /\ auditLog[a].contentType = item[1]

\* The audit entries the run of an item appended.
RunAuditEntries(item) ==
    {a \in Ids(auditLog) :
        /\ auditLog[a].contentId = item[2]
        /\ auditLog[a].contentType = item[1]
        /\ auditLog[a].actorId = tasks[item].actorId}

BlockedRunMakesNoPaidCall ==
    [][\A item \in AllItems :
        (/\ tasks[item].pc = "analyze"
         /\ tasks'[item].pc # "analyze"
         /\ shouldBlock)
        => tasks'[item].paidCalls = {}]_vars

\* C20: a run whose external calls had not answered by the processing ceiling
\* (the clock, kept in hours, moved on between the start of the run and the
\* answers) ends as a processing failure: its item is requires_review /
\* Under Review and has a queue entry.
LateAnswerIsProcessingFailure ==
    \A item \in AllItems :
        (/\ tasks[item].pc \in {"returned", "failed"}
         /\ tasks[item].paidCalls # {}
         /\ tasks[item].answeredAt > tasks[item].startedAt)
        => /\ Row(item).moderationStatus = "requires_review"
           /\ Row(item).uploadStatus = "Under Review"
           /\ QueueEntriesOf(item) # {}

\* The jobs handed to the processor so far, in the order they were handed.
RECURSIVE HandedJobs(_)
HandedJobs(calls) ==
    IF calls = <<>> THEN <<>> ELSE calls[1].batch \o HandedJobs(Tail(calls))

\* Every job is in the queue or in one batch, in enqueue order; no batch is
\* empty or longer than batchSize; the queue stays below batchSize, and a job
\* waits in it only with the timer armed.
BatcherDispatchInvariant ==
    /\ HandedJobs(batcher.calls) \o batcher.queue = [j \in 1..batcher.enqueued |-> j]
    /\ \A c \in 1..Len(batcher.calls) :
        Len(batcher.calls[c].batch) \in 1..batcher.batchSize
    /\ Len(batcher.queue) < batcher.batchSize
    /\ batcher.queue # <<>> => batcher.flushTimer

\* C18: every enqueued job is handed to the processor exactly once, in enqueue
\* order, in a batch of at most batchSize jobs; a batch goes out when the queue
\* reaches batchSize or when the timer armed by the first waiting job fires,
\* so that no job stays in the queue for ever.
EveryJobDispatchedOnceInOrder ==
    /\ []BatcherDispatchInvariant
    /\ \A j \in JobIds :
        (\E k \in 1..Len(batcher.queue) : batcher.queue[k] = j)
            ~> (\E c \in 1..Len(batcher.calls) :
                    \E k \in 1..Len(batcher.calls[c].batch) : batcher.calls[c].batch[k] = j)

\* A full batch went out on the second enqueue and a single job on the timer.
BatchBySizeAndBatchByTimer ==
    /\ batcher.batchSize = 2
    /\ Len(batcher.calls) = 2
    /\ batcher.calls[1].batch = <<1, 2>>
    /\ batcher.calls[2].batch = <<3>>
    /\ batcher.queue = <<>>
    /\ ~batcher.flushTimer

\* C19: when the processor has failed for a batch, every job of the batch is
\* rejected with the error of that call, and no job outside it is.
FailedBatchRejectsAllItsJobs ==
    \A c \in 1..Len(batcher.calls) :
        batcher.calls[c].status = "failed" =>
            /\ \A k \in 1..Len(batcher.calls[c].batch) :
                batcher.jobs[batcher.calls[c].batch[k]] = [promise |-> "rejected", error |-> c]
            /\ \A j \in JobIds :
                batcher.jobs[j].error = c =>
                    \E k \in 1..Len(batcher.calls[c].batch) : batcher.calls[c].batch[k] = j

\* What the function computes from the tables as they are.
FreshResult(fn) ==
    IF fn = "videos" THEN selectPublishedVideos
    ELSE IF fn = "feed" THEN combineFeed(selectPublishedVideos, selectPublishedPosts)
    ELSE LET rows == selectTrending
             kept == {k \in 1..Len(rows) :
                        LET t == contentTrending[rows[k]]
                        IN /\ t.contentId \in Ids(TableOf(t.contentType))
                           /\ Row(<<t.contentType, t.contentId>>).uploadStatus = "Published"}
             order == SortedIds(kept)
         IN [k \in 1..Len(order) |->
                <<contentTrending[rows[order[k]]].contentType, contentTrending[rows[order[k]]].contentId>>]

\* C21: a feed read that started after every decision written so far had been
\* followed by its cache clear returns what the tables hold, nothing read
\* before one of those decisions.
NoStaleFeedAfterDecisionAndClear ==
    \A c \in DOMAIN feedCalls :
        (feedCalls[c].pc = "done" /\ feedCalls[c].startedClears = resolveCalls)
            => feedCalls[c].result = FreshResult(feedCalls[c].fn)

\* C22: the ids a getUserRecommendations call returns, from the cache row or
\* from a fresh computation, are ids of videos that are Published when the
\* call is made.
RecommendationsArePublished ==
    \A k \in DOMAIN recHistory :
        recHistory[k].valid =>
            \A id \in recHistory[k].ids :
                /\ id \in Ids(recHistory[k].videos)
                /\ recHistory[k].videos[id].uploadStatus = "Published"

\* A call answered from a cache row naming videos 1 and 2 after video 2 was
\* rejected or put under review: it returned video 1 only.
CachedIdLeftOutAfterDecision ==
    /\ Len(userRecommendations) = 1
    /\ userRecommendations[1].recommendedContentIds = <<1, 2>>
    /\ videos[2].uploadStatus # "Published"
    /\ \E k \in DOMAIN recHistory :
        /\ recHistory[k].valid
        /\ recHistory[k].ids = {1}
        /\ recHistory[k].expiresAt = userRecommendations[1].expiresAt

\* C25: without an external service the run of the post "I hate everything,
\* it's hopeless" computes positivity score 34, a safe assessment and
\* auto_approved, and its update leaves the post Published with that score.
HopelessPostScores34AndIsPublished ==
    \A item \in AllItems :
        (item[1] = "post" /\ ~OPENAI_API_KEY) =>
            /\ tasks[item].pc \in {"update", "audit", "returned"} =>
                /\ tasks[item].positivityScore = 34
                /\ tasks[item].safety = [isSafe |-> TRUE, flags |-> {}, riskLevel |-> "none"]
                /\ tasks[item].moderationStatus = "auto_approved"
            /\ (tasks[item].pc \in {"audit", "returned"} /\ ~ResolvedByModerator(item)) =>
                /\ Row(item).positivityScore = 34
                /\ Row(item).moderationStatus = "auto_approved"
                /\ Row(item).uploadStatus = "Published"

\* C23: whatever the classifier endpoint answers, analyzeVideoElement and
\* analyzeTextElement return one of the five categories with a confidence
\* between 0 and 1.
ClassifierReturnsCategoryAndConfidence ==
    service.fn = "analyzeElement" =>
        /\ service.result.elementType \in {"Water", "Fire", "Earth", "Air", "Spiritual"}
        /\ service.result.confidence \in 0..10

\* C24: whatever the scorer endpoint answers, analyzePositivity returns an
\* integer between 0 and 100.
PositivityIsIntegerInRange ==
    service.fn = "analyzePositivity" =>
        /\ service.result.score \in 0..1000
        /\ service.result.score % 10 = 0

\* C29: when the safety endpoint answers with a result, the risk level follows
\* from the flagged categories alone, an unsafe assessment is never of risk
\* none and a safe one has no flags.
RiskLevelFollowsFlaggedCategories ==
    (service.fn = "checkContentSafety" /\ service.key /\ service.response.kind = "result") =>
        LET flagged == service.response.categories
            highSeverity == {"sexual/minors", "violence/graphic", "self-harm/intent",
                             "self-harm/instructions"}
        IN /\ service.result.riskLevel =
                IF flagged \cap highSeverity # {} \/ Cardinality(flagged) > 2 THEN "high"
                ELSE IF Cardinality(flagged) > 0 THEN "medium"
                ELSE "none"
           /\ ~service.result.isSafe => service.result.riskLevel # "none"
           /\ service.result.isSafe => service.result.flags = {}

\* C30: an answer of the safety endpoint without a result entry is handled like
\* an unreachable endpoint: unsafe, medium, api_error.
MalformedAnswerIsApiError ==
    (service.fn = "checkContentSafety" /\ service.key /\ service.response.kind = "no_result") =>
        service.result = [isSafe |-> FALSE, flags |-> {"api_error"}, riskLevel |-> "medium"]

\* C26: the queue read returns each entry whose status is the status filter
\* (pending when none is given) once and no other entry, urgent before high
\* before normal before low and, within one priority, newest first.
QueueReadFiltersAndOrders ==
    queueRead.called =>
        LET wanted == IF queueRead.status = NULL THEN "pending" ELSE queueRead.status
            result == queueRead.result
            order == <<"urgent", "high", "normal", "low">>
            place(q) == CHOOSE k \in 1..4 : order[k] = moderationQueue[q].priority
        IN /\ \A q \in Ids(moderationQueue) :
                Cardinality({i \in 1..Len(result) : result[i] = q})
                    = IF moderationQueue[q].status = wanted THEN 1 ELSE 0
           /\ \A i, j \in 1..Len(result) :
                i < j =>
                    \/ place(result[i]) < place(result[j])
                    \/ /\ place(result[i]) = place(result[j])
                       /\ moderationQueue[result[i]].createdAt >= moderationQueue[result[j]].createdAt

\* A read without status parameter of a queue of three entries: the resolved
\* one is left out, and of the two pending ones the urgent entry inserted
\* last comes before the normal one.
PendingEntriesReadUrgentFirst ==
    /\ queueRead.called
    /\ queueRead.status = NULL
    /\ Len(moderationQueue) = 3
    /\ moderationQueue[1].priority = "normal"
    /\ moderationQueue[2].status = "resolved"
    /\ moderationQueue[3].priority = "urgent"
    /\ queueRead.result = <<3, 1>>

\* C27: when resolveModeration returns, for a video and for a post, the item
\* has the status of the decision (auto_approved for approved, rejected for
\* rejected), every queue entry of the content is resolved, and the item
\* carries the moderator's id and the time of the decision.
ResolveSetsStatusQueueAndStamp ==
    [][(resolve.pc = "audit" /\ resolve'.pc = "idle") =>
        LET item == <<resolve.contentType, resolve.contentId>>
            row == IF item[1] = "video" THEN videos'[item[2]] ELSE posts'[item[2]]
        IN /\ row.moderationStatus
                = (IF resolve.decision = "approved" THEN "auto_approved" ELSE "rejected")
           /\ \A q \in DOMAIN moderationQueue' :
                (moderationQueue'[q].contentId = item[2] /\ moderationQueue'[q].contentType = item[1])
                    => moderationQueue'[q].status = "resolved"
           /\ {"moderatedBy", "moderatedAt"} \subseteq DOMAIN row
           /\ row.moderatedBy = resolve.moderatorId
           /\ row.moderatedAt = resolveCalls]_vars

\* The score the formula gives a row from its own counts, in hundredths: a
\* row without engagement count has had no engagement.
OwnCountsScore(row) ==
    LET engagement == IF "engagementScore" \in DOMAIN row THEN row.engagementScore ELSE 0
        base == row.viewCount * 60 + engagement * 40
        p == row.positivityScore
    IN IF p = NoScore THEN base
       ELSE IF p >= 90 THEN base * 3
       ELSE IF p >= 70 THEN (base * 3) \div 2
       ELSE IF p >= 50 THEN base
       ELSE base \div 2

\* C28: when a run of calculateTrendingScores that nothing disturbed ends,
\* every Published video and post of a category has a trending record whose
\* score is (views*0.6 + engagement*0.4) of its own counts times its
\* positivity multiplier.
CompletedRunScoresOwnCounts ==
    [][\A r \in RunSlots :
        (/\ trendRuns[r].phase # "done"
         /\ trendRuns'[r].phase = "done"
         /\ trendRuns'[r].clean)
        => \A item \in AllItems :
            LET row == IF item[1] = "video" THEN videos'[item[2]] ELSE posts'[item[2]]
            IN (/\ item[2] \in DOMAIN (IF item[1] = "video" THEN videos' ELSE posts')
                /\ row.uploadStatus = "Published"
                /\ row.elementCategory \in ElementSet)
               => \E t \in DOMAIN contentTrending' :
                    /\ contentTrending'[t].contentId = item[2]
                    /\ contentTrending'[t].contentType = item[1]
                    /\ contentTrending'[t].trendingScore = OwnCountsScore(row)]_vars

\* C31: the current spend is the sum of the costs of the records ever made
\* whose time lies within the window, being over budget is having spent at
\* least nine tenths of the limit, blocking is having spent at least the limit,
\* and blocking implies being over budget.
SpendCountsRecordsOfTheWindow ==
    LET inWindow == {k \in DOMAIN costMonitor.recorded :
                        now - costMonitor.recorded[k].timestamp <= 24}
        RECURSIVE Sum(_)
        Sum(S) == IF S = {} THEN 0
                  ELSE LET k == CHOOSE x \in S : TRUE
                       IN costMonitor.recorded[k].estimatedCost + Sum(S \ {k})
        spend == Sum(inWindow)
    IN /\ getCurrentSpend = spend
       /\ isOverBudget <=> (spend * 10 >= costMonitor.budgetLimitUSD * 9)
       /\ shouldBlock <=> (spend >= costMonitor.budgetLimitUSD)
       /\ shouldBlock => isOverBudget

\* Two records made, the first pruned when the second, of 9 cents, was made
\* more than two windows later: with a limit of 10 cents the monitor is over
\* budget and does not block.
PrunedAndOverBudgetNotBlocked ==
    /\ Len(costMonitor.recorded) = 2
    /\ Len(costMonitor.records) = 1
    /\ costMonitor.budgetLimitUSD = 10
    /\ getCurrentSpend = 9
    /\ isOverBudget
    /\ ~shouldBlock

\* C32: user_recommendations never holds two rows of one user and category.
OneCacheEntryPerUserAndCategory ==
    \A a, b \in Ids(userRecommendations) :
        (/\ userRecommendations[a].userId = userRecommendations[b].userId
         /\ userRecommendations[a].elementCategory = userRecommendations[b].elementCategory)
        => a = b

\* C33: a getUserRecommendations call returns at most limit items, from a
\* fresh computation or from a cache row an earlier call wrote.
ReturnsAtMostLimit ==
    [][\A c \in RecSlots :
        (recCalls[c].pc \in {"fetch", "store"} /\ recCalls'[c].pc = "idle")
            => Cardinality(recHistory'[<<recCalls[c].userId, recCalls[c].elementCategory>>].ids)
                    <= recCalls[c].limit]_vars

\* C34: of one key, no limiter lets more than max requests through within an
\* interval of length windowMs, wherever the interval starts.
AtMostMaxWithinAnyWindow ==
    \A name \in DOMAIN Limiters, key \in Ips, first \in DOMAIN store.passed :
        Cardinality({k \in DOMAIN store.passed :
                        /\ store.passed[k].limiter = name
                        /\ store.passed[k].key = key
                        /\ store.passed[k].time >= store.passed[first].time
                        /\ store.passed[k].time < store.passed[first].time + Limiters[name].windowMs})
            <= Limiters[name].max

\* C35: a limiter lets a request through exactly when it would with the other
\* limiters unused: their requests of the same IP neither count against its
\* quota nor open or move its window.
LimitersCountIndependently == store.last.passes = store.last.alone

\* C36: an item becomes Published only by the content update of a pipeline run
\* that decided auto_approved or by the update of a resolveModeration call
\* that approves it; never by being created.
PublishedOnlyByApproval ==
    [][\A item \in AllItems :
        LET table == IF item[1] = "video" THEN videos ELSE posts
            table2 == IF item[1] = "video" THEN videos' ELSE posts'
        IN (/\ item[2] \in DOMAIN table2
            /\ table2[item[2]].uploadStatus = "Published"
            /\ ~(item[2] \in DOMAIN table /\ table[item[2]].uploadStatus = "Published"))
           => \/ /\ tasks[item].pc = "update"
                 /\ tasks'[item].pc = "audit"
                 /\ tasks[item].moderationStatus = "auto_approved"
              \/ /\ resolve.pc = "idle"
                 /\ resolve'.pc = "queue"
                 /\ resolve'.contentType = item[1]
                 /\ resolve'.contentId = item[2]
                 /\ resolve'.decision = "approved"]_vars

\* C37: the queue update of a resolveModeration call changes no queue entry
\* of content of the other type.
ResolveLeavesOtherTypeEntries ==
    [][(resolve.pc = "queue" /\ resolve'.pc = "audit") =>
        \A q \in DOMAIN moderationQueue :
            moderationQueue[q].contentType # resolve.contentType
                => moderationQueue'[q] = moderationQueue[q]]_vars

\* C38: the one pipeline run of an item leaves at most one queue entry of
\* that item, whichever path it takes.
OneQueueEntryPerRun ==
    \A item \in AllItems :
        Cardinality({q \in DOMAIN moderationQueue :
                        /\ moderationQueue[q].contentType = item[1]
                        /\ moderationQueue[q].contentId = item[2]}) <= 1

\* Keyword hits of the best category in the submitted text.
BestCategoryHits ==
    LET text == toLowerCase(SampleTexts[service.text] \o <<" ">>)
        count == [e \in 1..Len(keywords) |->
                    Cardinality({k \in 1..Len(keywords[e]) : includes(text, keywords[e][k])})]
    IN CHOOSE n \in 0..13 :
        /\ \E e \in 1..Len(keywords) : count[e] = n
        /\ \A e \in 1..Len(keywords) : count[e] <= n

\* C39: without external service, a video whose run returned without exception
\* is auto_approved exactly when its text has at least 3 keywords of one
\* category; with 0, 1 or 2 the confidence is 0.3, 0.2 or 0.4, the video is in
\* review and its one queue entry has priority normal.
FallbackApprovesFromThreeHits ==
    \A i \in Ids(videos) :
        LET t == tasks[<<"video", i>>]
            n == BestCategoryHits
            entries == {q \in DOMAIN moderationQueue :
                            /\ moderationQueue[q].contentType = "video"
                            /\ moderationQueue[q].contentId = i}
        IN (~OPENAI_API_KEY /\ t.pc = "returned") =>
            /\ (videos[i].moderationStatus = "auto_approved") <=> (n >= 3)
            /\ n >= 3 => (videos[i].uploadStatus = "Published" /\ entries = {})
            /\ n < 3 =>
                /\ t.analysis.confidence = (IF n = 0 THEN 3 ELSE IF n = 1 THEN 2 ELSE 4)
                /\ videos[i].moderationStatus = "requires_review"
                /\ videos[i].uploadStatus = "Under Review"
                /\ Cardinality(entries) = 1
                /\ \A q \in entries : moderationQueue[q].priority = "normal"

\* A video titled "Calm rain" (two Water keywords) whose run returned: in
\* review with confidence 0.4.
TwoHitVideoInReview ==
    /\ SampleTexts[service.text] = CalmRainText
    /\ Len(videos) = 1
    /\ tasks[<<"video", 1>>].pc = "returned"
    /\ tasks[<<"video", 1>>].analysis.confidence = 4
    /\ videos[1].moderationStatus = "requires_review"

====
